---- MODULE Spec2Model ----
(***************************************************************************)
(* Face-authentication attendance system: the attendance ledger            *)
(* (attendance/storage.py, AttendanceLogger), the blink liveness detector  *)
(* (spoof/liveness.py, LivenessDetector), the matcher (face/matcher.py)    *)
(* and the main loop that drives them (app.py).                            *)
(*                                                                         *)
(* Time is the wall clock in whole seconds, observed at the instants of    *)
(* Instants (chosen around one midnight, with gaps of 1, 10, 11 and more   *)
(* seconds).  Every datetime.now() and time.time() in the code is a        *)
(* separate read of that clock: the reads made inside one call are         *)
(* non-decreasing and may differ.                                          *)
(***************************************************************************)
EXTENDS Integers, Sequences, FiniteSets

VARIABLES
    clock,             \* the wall clock, seconds
    logs,              \* AttendanceLogger.logs
    log_file,          \* content of the attendance log file
    ret,               \* value returned by the last ledger call
    call,              \* the last ledger call: operation, arguments, clock reads
    blink_count,       \* LivenessDetector.blink_count
    closed_frames,     \* LivenessDetector.closed_frames
    check_start_time,  \* LivenessDetector.check_start_time
    hist,              \* verify_liveness calls since the last reset(), in order
    faces,             \* FaceStorage.faces
    encodings,         \* FaceStorage.encodings
    faces_file,        \* the file FaceStorage.faces_file names
    encodings_file,    \* the file FaceStorage.encodings_file names
    self_threshold,    \* FaceMatcher.threshold
    match,             \* the last match_face call: arguments and result
    mode,              \* main(): mode
    liveness_active,   \* main(): liveness_active
    last_recognition,  \* main(): last_recognition
    frame,             \* main(): what the current loop iteration captured
    samples,           \* main(): samples, as the last registration left it
    pc                 \* main(): position inside the loop iteration

vars == <<clock, logs, log_file, ret, call, blink_count, closed_frames,
          check_start_time, hist, faces, encodings, faces_file, encodings_file,
          self_threshold, match,
          mode, liveness_active, last_recognition, frame, samples, pc>>

ledgerVars == <<logs, log_file, ret, call>>
livenessVars == <<blink_count, closed_frames, check_start_time, hist>>
registryVars == <<faces, encodings, faces_file, encodings_file>>
matcherVars == <<self_threshold, match>>
appVars == <<mode, liveness_active, last_recognition, frame, samples, pc>>

(***************************************************************************)
(* Bounds of the model.                                                    *)
(***************************************************************************)
MaxDrift == 1
MaxLog == 3
MaxFrames == 4
MaxFaces == 2
MaxIds == 3
MaxStored == 2
MaxCheck == 2

(***************************************************************************)
(* Program constants.                                                      *)
(***************************************************************************)
SecondsPerDay == 86400
DedupWindow == 10
consecutive_frames == 2
required_blinks == 0
max_check_duration == 1
None == -1
threshold == 8
num_samples == 7
Infinity == 1000000

Names == {"alice", "bob"}

\* the instants at which the clock is read: 23:59:59 of one day, 00:00:00,
\* 00:00:10, 00:00:11 and 00:00:22 of the next
Instants == {86399, 86400, 86410, 86411, 86422}

StartTime == CHOOSE t \in Instants : \A u \in Instants : t <= u

Max(S) == CHOOSE x \in S : \A y \in S : y <= x

(***************************************************************************)
(* The clock and its textual forms.                                        *)
(***************************************************************************)
\* datetime.now().strftime('%Y-%m-%d'): the calendar day
strftime_date(t) == t \div SecondsPerDay

\* datetime.now().strftime('%H:%M:%S'): the time of day
strftime_time(t) == t % SecondsPerDay

\* datetime.isoformat(): date and time of day, as text
isoformat(t) == [date |-> t \div SecondsPerDay, time |-> t % SecondsPerDay]

\* datetime.fromisoformat(): back to an instant
fromisoformat(s) == s.date * SecondsPerDay + s.time

\* n successive reads of the clock made inside one call that starts at c:
\* non-decreasing, the clock moving on at most MaxDrift times in between
RECURSIVE ReadsFrom(_, _, _)
ReadsFrom(c, n, drift) ==
    IF n = 1 THEN {<<c>>}
    ELSE {<<c>> \o r : r \in ReadsFrom(c, n - 1, drift)}
            \cup (IF drift = 0 THEN {}
                  ELSE UNION {{<<c>> \o r : r \in ReadsFrom(t, n - 1, drift - 1)} :
                                t \in {u \in Instants : u > c}})

ClockReads(c, n) == ReadsFrom(c, n, MaxDrift)

\* the reads a call made, in order; a read the call did not make (used[i]
\* false) shows the value of the read before it
ReadsMade(r, used) ==
    [i \in DOMAIN r |-> r[Max({j \in 1..i : used[j]})]]

(***************************************************************************)
(* AttendanceLogger                                                        *)
(***************************************************************************)
\* the entry at the greatest index of idx, the one `for log in reversed(logs)`
\* finds first, or none
LastWhere(ls, idx) ==
    IF idx = {} THEN <<>> ELSE <<ls[Max(idx)]>>

StatusOf(found) ==
    IF found = <<>> THEN "none"
    ELSE IF found[1].type = "punch_in" THEN "in"
    ELSE IF found[1].type = "punch_out" THEN "out"
    ELSE "none"

\* get_status_recent with `<` for `<=`
get_status_recent_strict(ls, name, now) ==
    LET Recent(log) == /\ log.name = name
                       /\ now - fromisoformat(log.timestamp) < DedupWindow
    IN  StatusOf(LastWhere(ls, {i \in 1..Len(ls) : Recent(ls[i])}))

\* get_status_recent without the test on the name
get_status_recent_anyone(ls, name, now) ==
    LET Recent(log) == now - fromisoformat(log.timestamp) <= DedupWindow
    IN  StatusOf(LastWhere(ls, {i \in 1..Len(ls) : Recent(ls[i])}))

\* get_status_recent looking at punch-in entries only
get_status_recent_in_only(ls, name, now) ==
    LET Recent(log) == /\ log.name = name
                       /\ log.type = "punch_in"
                       /\ now - fromisoformat(log.timestamp) <= DedupWindow
    IN  StatusOf(LastWhere(ls, {i \in 1..Len(ls) : Recent(ls[i])}))

\* get_status_recent with a window of 1 second for 10
get_status_recent_one_second(ls, name, now) ==
    LET Recent(log) == /\ log.name = name
                       /\ now - fromisoformat(log.timestamp) <= 1
    IN  StatusOf(LastWhere(ls, {i \in 1..Len(ls) : Recent(ls[i])}))

\* get_status_recent without the test on the time: the last entry of the
\* name, however old
get_status_recent_no_window(ls, name, now) ==
    LET Named(log) == log.name = name
    IN  StatusOf(LastWhere(ls, {i \in 1..Len(ls) : Named(ls[i])}))

get_status_recent(ls, name, now) ==
    LET Recent(log) == /\ log.name = name
                       /\ now - fromisoformat(log.timestamp) <= DedupWindow
    IN  StatusOf(LastWhere(ls, {i \in 1..Len(ls) : Recent(ls[i])}))

\* get_status_today without the test on the date
get_status_today_any_day(ls, name, now) ==
    LET Named(log) == log.name = name
    IN  StatusOf(LastWhere(ls, {i \in 1..Len(ls) : Named(ls[i])}))

\* get_status_today scanning the log forwards: the first entry of today
get_status_today_first(ls, name, now) ==
    LET today == strftime_date(now)
        idx == {i \in 1..Len(ls) : ls[i].name = name /\ ls[i].date = today}
    IN  IF idx = {} THEN "none"
        ELSE StatusOf(<<ls[CHOOSE i \in idx : \A j \in idx : i <= j]>>)

get_status_today(ls, name, now) ==
    LET today == strftime_date(now)
        Today(log) == log.name = name /\ log.date = today
    IN  StatusOf(LastWhere(ls, {i \in 1..Len(ls) : Today(ls[i])}))

\* _get_last_punch_in_today scanning the log forwards: the first punch-in
_get_first_punch_in_today(ls, name, now) ==
    LET today == strftime_date(now)
        idx == {i \in 1..Len(ls) : /\ ls[i].name = name
                                   /\ ls[i].date = today
                                   /\ ls[i].type = "punch_in"}
    IN  IF idx = {} THEN <<>>
        ELSE <<ls[CHOOSE i \in idx : \A j \in idx : i <= j]>>

_get_last_punch_in_today(ls, name, now) ==
    LET today == strftime_date(now)
        In(log) == /\ log.name = name
                   /\ log.date = today
                   /\ log.type = "punch_in"
    IN  LastWhere(ls, {i \in 1..Len(ls) : In(ls[i])})

\* str(duration).split('.')[0]: the whole seconds of the difference
duration_str(d) == d

\* round(duration.total_seconds() / 3600, 2), in hundredths of an hour (a
\* tie, d = 18 mod 36, rounds as the float falls; no duration reached here
\* is one)
duration_hours(d) == (d * 100 + 1800) \div 3600

\* punch_in(name, face_id) with clock reads r: the new log, the returned
\* value and the last clock read made
punch_in(ls, name, face_id, r) ==
    LET today == strftime_date(r[1])
        status == get_status_recent(ls, name, r[2])
        entry == [name |-> name, face_id |-> face_id, type |-> "punch_in",
                  timestamp |-> isoformat(r[3]), date |-> today,
                  time |-> strftime_time(r[4])]
    IN  IF status = "in"
        THEN [logs |-> ls, saved |-> FALSE,
              reads |-> ReadsMade(r, <<TRUE, TRUE, FALSE, FALSE>>),
              ret |-> [success |-> FALSE, type |-> "duplicate",
                       message |-> <<name, "already punched in (wait 10s)">>]]
        ELSE IF status = "out"
        THEN [logs |-> ls, saved |-> FALSE,
              reads |-> ReadsMade(r, <<TRUE, TRUE, FALSE, FALSE>>),
              ret |-> [success |-> FALSE, type |-> "already_completed",
                       message |-> <<name, "already completed attendance (wait 10s)">>]]
        ELSE [logs |-> Append(ls, entry), saved |-> TRUE, reads |-> r,
              ret |-> [success |-> TRUE, entry |-> entry,
                       message |-> <<name, "punched in at", entry.time>>]]

\* punch_out(name, face_id) with clock reads r
punch_out(ls, name, face_id, r) ==
    LET today == strftime_date(r[1])
        status == get_status_today(ls, name, r[2])
        recent_status == get_status_recent(ls, name, r[3])
        punch_in_entry == _get_last_punch_in_today(ls, name, r[4])
        base == [name |-> name, face_id |-> face_id, type |-> "punch_out",
                 timestamp |-> isoformat(r[5]), date |-> today,
                 time |-> strftime_time(r[6])]
        duration == r[7] - fromisoformat(punch_in_entry[1].timestamp)
        entry == IF punch_in_entry # <<>>
                 THEN [name |-> base.name, face_id |-> base.face_id,
                       type |-> base.type, timestamp |-> base.timestamp,
                       date |-> base.date, time |-> base.time,
                       duration_hours |-> duration_hours(duration),
                       duration_str |-> duration_str(duration)]
                 ELSE base
    IN  IF status = "none"
        THEN [logs |-> ls, saved |-> FALSE,
              reads |-> ReadsMade(r, <<TRUE, TRUE, FALSE, FALSE, FALSE, FALSE, FALSE>>),
              ret |-> [success |-> FALSE, type |-> "not_punched_in",
                       message |-> <<name, "has not punched in yet">>]]
        ELSE IF status = "out" /\ recent_status = "out"
        THEN [logs |-> ls, saved |-> FALSE,
              reads |-> ReadsMade(r, <<TRUE, TRUE, TRUE, FALSE, FALSE, FALSE, FALSE>>),
              ret |-> [success |-> FALSE, type |-> "duplicate",
                       message |-> <<name, "already punched out (wait 10s)">>]]
        ELSE [logs |-> Append(ls, entry), saved |-> TRUE,
              reads |-> ReadsMade(r, <<TRUE, TRUE, status = "out", TRUE, TRUE,
                                       TRUE, punch_in_entry # <<>> >>),
              ret |-> [success |-> TRUE, entry |-> entry,
                       message |-> IF punch_in_entry # <<>>
                                   THEN <<name, "punched out at", entry.time,
                                          "Duration", entry.duration_str>>
                                   ELSE <<name, "punched out at", entry.time>>]]

\* AttendanceManager.get_status(name): get_status_today with one clock read
get_status(ls, name, r) ==
    [logs |-> ls, saved |-> FALSE, reads |-> r,
     ret |-> [status |-> get_status_today(ls, name, r[1])]]

\* get_today_logs without the test on the date
get_today_logs_all(ls, now) == ls

\* get_today_logs(): the entries dated today, in log order
get_today_logs(ls, now) ==
    SelectSeq(ls, LAMBDA log : log.date = strftime_date(now))

\* the record get_today_summary makes for a name it meets for the first time
NewPerson(name) ==
    [name |-> name, punch_in |-> None, punch_out |-> None, status |-> "None"]

\* d[key] = val on a dict
SetKey(d, key, val) ==
    [k \in DOMAIN d \cup {key} |-> IF k = key THEN val ELSE d[k]]

\* the grouping loop of get_today_summary: people is the dict built so far,
\* as the sequence of its values in insertion order
RECURSIVE GroupByPerson(_, _)
GroupByPerson(today_logs, people) ==
    IF today_logs = <<>> THEN people
    ELSE LET log == Head(today_logs)
             ps == IF \E i \in DOMAIN people : people[i].name = log.name
                   THEN people
                   ELSE Append(people, NewPerson(log.name))
             at == CHOOSE i \in DOMAIN ps : ps[i].name = log.name
             seen == IF log.type = "punch_in"
                     THEN SetKey(ps[at], "punch_in", log.time)
                     ELSE IF log.type = "punch_out"
                     THEN IF "duration_str" \in DOMAIN log
                          THEN SetKey(SetKey(ps[at], "punch_out", log.time),
                                      "duration", log.duration_str)
                          ELSE SetKey(ps[at], "punch_out", log.time)
                     ELSE ps[at]
         IN  GroupByPerson(Tail(today_logs), [ps EXCEPT ![at] = seen])

\* the status loop of get_today_summary (a time string is never empty, so
\* it is truthy exactly when it is not None)
SetStatus(data) ==
    SetKey(data, "status",
           IF data.punch_in # None /\ data.punch_out # None THEN "Completed"
           ELSE IF data.punch_in # None THEN "Checked In"
           ELSE "Unknown")

\* get_today_summary() with clock reads r: r[1] is the read of its own
\* `today`, which it does not use, r[2] the read of get_today_logs
get_today_summary(ls, r) ==
    LET people == GroupByPerson(get_today_logs(ls, r[2]), <<>>)
    IN  [logs |-> ls, saved |-> FALSE, reads |-> r,
         ret |-> [summary |-> [i \in DOMAIN people |-> SetStatus(people[i])]]]

\* the attendance log file: absent, empty, text that is no JSON document, or
\* the JSON document json.dump wrote, a list of objects, each the pairs of a
\* key and a value in the order json.dump writes them
FileAbsent == [content |-> "absent", items |-> <<>>]
FileEmpty == [content |-> "empty", items |-> <<>>]
FileGarbage == [content |-> "garbage", items |-> <<>>]

\* what the encodings file can hold besides an array np.save wrote: no file,
\* or bytes np.load raises ValueError on
NpyAbsent == [content |-> "absent", shape |-> <<0>>, data |-> <<>>]
NpyGarbage == [content |-> "garbage", shape |-> <<0>>, data |-> <<>>]

\* the keys of a log entry, in the order punch_in and punch_out set them
KeysOf(entry) ==
    IF "duration_hours" \in DOMAIN entry
    THEN <<"name", "face_id", "type", "timestamp", "date", "time",
           "duration_hours", "duration_str">>
    ELSE <<"name", "face_id", "type", "timestamp", "date", "time">>

\* a json.dump that leaves the duration of an entry out
dumps_without_duration(entry) ==
    [i \in 1..6 |-> <<KeysOf(entry)[i], entry[KeysOf(entry)[i]]>>]

\* json.dump of one entry
dumps(entry) ==
    [i \in DOMAIN KeysOf(entry) |-> <<KeysOf(entry)[i], entry[KeysOf(entry)[i]]>>]

\* json.loads of one object
loads(pairs) ==
    [k \in {pairs[i][1] : i \in DOMAIN pairs} |->
        pairs[CHOOSE i \in DOMAIN pairs : pairs[i][1] = k][2]]

\* _save_logs writing ls: the file after open(self.log_file, 'w') and
\* json.dump(self.logs, f, indent=2)
_save_logs(ls) == [content |-> "json", items |-> [i \in DOMAIN ls |-> dumps(ls[i])]]

\* a _load_logs that leaves the events in memory when the file holds no
\* JSON document
_load_logs_keep(file) ==
    IF file.content = "json"
    THEN [i \in DOMAIN file.items |-> loads(file.items[i])]
    ELSE logs

\* _load_logs: [] when the file does not exist, is empty, or does not parse
_load_logs(file) ==
    IF file.content = "json"
    THEN [i \in DOMAIN file.items |-> loads(file.items[i])]
    ELSE <<>>

\* the file after a _save_logs that raised: open() failed and the file is as
\* it was, or the file was truncated and nothing or only a part of the
\* document was written
FailedSave(file) == {file, FileEmpty, FileGarbage}

\* the exception a call ended with, in place of a returned value
Raised == [success |-> FALSE, type |-> "raised", message |-> <<"OSError">>]

\* the last of the clock reads a call made
LastRead(reads) == reads[Len(reads)]

\* the face id the registry gives a name (its position, from 0)
FaceIdOf(name) == IF name = "alice" THEN 0 ELSE 1

\* the effect of a ledger call with logs.insert(0, entry) for
\* logs.append(entry)
LedgerEffect_insert_first(op, name, out) ==
    /\ Len(out.logs) <= MaxLog
    /\ logs' = IF out.saved THEN <<out.ret.entry>> \o logs ELSE out.logs
    /\ log_file' = IF out.saved THEN _save_logs(<<out.ret.entry>> \o logs)
                   ELSE log_file
    /\ ret' = out.ret
    /\ call' = [op |-> op, name |-> name, reads |-> out.reads]

\* the effect of a ledger call that also keeps the calls it rejects in the
\* log
LedgerEffect_keep_rejected(op, name, out) ==
    /\ Len(out.logs) <= MaxLog
    /\ logs' = IF out.saved \/ "type" \notin DOMAIN out.ret \/ Len(logs) = MaxLog
               THEN out.logs
               ELSE Append(logs, [name |-> name, face_id |-> FaceIdOf(name),
                                  type |-> out.ret.type,
                                  timestamp |-> isoformat(LastRead(out.reads)),
                                  date |-> strftime_date(LastRead(out.reads)),
                                  time |-> strftime_time(LastRead(out.reads))])
    /\ log_file' = IF out.saved THEN _save_logs(out.logs) ELSE log_file
    /\ ret' = out.ret
    /\ call' = [op |-> op, name |-> name, reads |-> out.reads]

\* the effect of a ledger call on the ledger
LedgerEffect(op, name, out) ==
    /\ Len(out.logs) <= MaxLog
    /\ logs' = out.logs
    /\ log_file' = IF out.saved THEN _save_logs(out.logs) ELSE log_file
    /\ ret' = out.ret
    /\ call' = [op |-> op, name |-> name, reads |-> out.reads]

\* the effect of a ledger call whose _save_logs raises: the entry is in
\* self.logs already, and the exception leaves the call
LedgerEffectFailing(op, name, out) ==
    /\ out.saved
    /\ Len(out.logs) <= MaxStored
    /\ logs' = out.logs
    /\ log_file' \in FailedSave(log_file)
    /\ ret' = Raised
    /\ call' = [op |-> op, name |-> name, reads |-> out.reads]

\* a ledger call made on its own: the clock is where its last read left it
LedgerCall(op, name, out) ==
    /\ LedgerEffect(op, name, out)
    /\ clock' = LastRead(out.reads)

PunchIn ==
    \E name \in Names : \E r \in ClockReads(clock, 4) :
        /\ LedgerCall("punch_in", name, punch_in(logs, name, FaceIdOf(name), r))
        /\ UNCHANGED <<livenessVars, registryVars, matcherVars, appVars>>

PunchOut ==
    \E name \in Names : \E r \in ClockReads(clock, 7) :
        /\ LedgerCall("punch_out", name, punch_out(logs, name, FaceIdOf(name), r))
        /\ UNCHANGED <<livenessVars, registryVars, matcherVars, appVars>>

GetStatus ==
    \E name \in Names : \E r \in ClockReads(clock, 1) :
        /\ LedgerCall("get_status", name, get_status(logs, name, r))
        /\ UNCHANGED <<livenessVars, registryVars, matcherVars, appVars>>

GetTodaySummary ==
    \E r \in ClockReads(clock, 2) :
        /\ LedgerCall("get_today_summary", "none", get_today_summary(logs, r))
        /\ UNCHANGED <<livenessVars, registryVars, matcherVars, appVars>>

\* time passes between two calls
Tick ==
    \E t \in Instants :
        /\ t > clock
        /\ clock' = t
        /\ UNCHANGED <<ledgerVars, livenessVars, registryVars, matcherVars, appVars>>

NoCall == [op |-> "none", name |-> "none", reads |-> <<>>]
NoRet == [success |-> FALSE, type |-> "none", message |-> <<>>]

Init ==
    /\ clock = StartTime
    /\ logs = <<>>
    /\ log_file = FileAbsent
    /\ ret = NoRet
    /\ call = NoCall
    /\ blink_count = 0
    /\ closed_frames = 0
    /\ check_start_time = None
    /\ hist = <<>>
    /\ faces = <<>>
    /\ encodings = <<>>
    /\ faces_file = FileAbsent
    /\ encodings_file = NpyAbsent
    /\ self_threshold = threshold
    /\ match = <<>>
    /\ mode = "idle"
    /\ liveness_active = FALSE
    /\ last_recognition = <<>>
    /\ frame = [faces |-> 0, encoding |-> <<>>]
    /\ samples = <<>>
    /\ pc = "capture"

NextLedger == PunchIn \/ PunchOut \/ GetStatus \/ GetTodaySummary \/ Tick

SpecLedger == Init /\ [][NextLedger]_vars

\* punch_in whose _save_logs raises
PunchInSaveFails ==
    \E name \in Names : \E r \in ClockReads(clock, 4) :
        LET out == punch_in(logs, name, FaceIdOf(name), r)
        IN  /\ LedgerEffectFailing("punch_in", name, out)
            /\ clock' = LastRead(out.reads)
            /\ UNCHANGED <<livenessVars, registryVars, matcherVars, appVars>>

\* punch_out whose _save_logs raises
PunchOutSaveFails ==
    \E name \in Names : \E r \in ClockReads(clock, 7) :
        LET out == punch_out(logs, name, FaceIdOf(name), r)
        IN  /\ LedgerEffectFailing("punch_out", name, out)
            /\ clock' = LastRead(out.reads)
            /\ UNCHANGED <<livenessVars, registryVars, matcherVars, appVars>>

\* the program is started again: AttendanceLogger() loads the log file
Restart ==
    /\ logs' = _load_logs(log_file)
    /\ ret' = NoRet
    /\ call' = [op |-> "load", name |-> "none", reads |-> <<>>]
    /\ UNCHANGED <<clock, log_file, livenessVars, registryVars, matcherVars,
                   appVars>>

\* punch_in and punch_out, while the log has room
PunchInStored == PunchIn /\ Len(logs') <= MaxStored

PunchOutStored == PunchOut /\ Len(logs') <= MaxStored

NextStore ==
    \/ PunchInStored
    \/ PunchOutStored
    \/ PunchInSaveFails
    \/ PunchOutSaveFails
    \/ Restart
    \/ Tick

SpecStore == Init /\ [][NextStore]_vars

(***************************************************************************)
(* LivenessDetector                                                        *)
(***************************************************************************)
\* what the eye detector sees in a frame: no eyes, eyes with a low aspect
\* ratio (closed), eyes with a high one (open)
EyeObs == {"no_eyes", "closed", "open"}

\* reset(): the detector's state for a new check
reset == [blink_count |-> 0, closed_frames |-> 0, check_start_time |-> None]

\* check_blink on a frame showing obs, from detector state st
check_blink(st, obs) ==
    IF obs = "no_eyes"
    THEN [st |-> st, eyes_detected |-> FALSE, blink_detected |-> FALSE]
    ELSE IF obs = "closed"
    THEN [st |-> [st EXCEPT !.closed_frames = @ + 1],
          eyes_detected |-> TRUE, blink_detected |-> FALSE]
    ELSE IF st.closed_frames >= consecutive_frames
    THEN [st |-> [st EXCEPT !.blink_count = @ + 1, !.closed_frames = 0],
          eyes_detected |-> TRUE, blink_detected |-> TRUE]
    ELSE [st |-> [st EXCEPT !.closed_frames = 0],
          eyes_detected |-> TRUE, blink_detected |-> FALSE]

\* time_elapsed > self.max_check_duration, with `>=` for `>`
TimedOut_ge(time_elapsed) == time_elapsed >= max_check_duration

\* time_elapsed > self.max_check_duration
TimedOut(time_elapsed) == time_elapsed > max_check_duration

\* a verify_liveness that starts the timer anew on every call
verify_liveness_relatch(st, obs, r) ==
    LET started == [st EXCEPT !.check_start_time = r[1]]
        time_elapsed == r[2] - started.check_start_time
        blink_result == check_blink(started, obs)
        after == blink_result.st
    IN  IF TimedOut(time_elapsed)
        THEN [st |-> started,
              result |-> [is_live |-> "False",
                          blink_count |-> started.blink_count,
                          time_elapsed |-> time_elapsed,
                          message |-> "Timeout"]]
        ELSE [st |-> after,
              result |-> [is_live |-> IF blink_result.eyes_detected
                                         /\ after.blink_count >= required_blinks
                                      THEN "True" ELSE "None",
                          blink_count |-> after.blink_count,
                          time_elapsed |-> time_elapsed,
                          message |-> "Checking"]]

\* verify_liveness on a frame showing obs, from detector state st, with
\* clock reads r: r[1] starts the timer (read only when it is not running),
\* r[2] measures the time elapsed
verify_liveness(st, obs, r) ==
    LET started == IF st.check_start_time = None
                   THEN [st EXCEPT !.check_start_time = r[1]]
                   ELSE st
        time_elapsed == r[2] - started.check_start_time
        blink_result == check_blink(started, obs)
        after == blink_result.st
    IN  IF TimedOut(time_elapsed)
        THEN [st |-> started,
              result |-> [is_live |-> "False",
                          blink_count |-> started.blink_count,
                          time_elapsed |-> time_elapsed,
                          message |-> "Timeout"]]
        ELSE IF ~blink_result.eyes_detected
        THEN [st |-> after,
              result |-> [is_live |-> "None",
                          blink_count |-> after.blink_count,
                          time_elapsed |-> time_elapsed,
                          message |-> "Eyes not detected, please look at camera"]]
        ELSE IF after.blink_count >= required_blinks
        THEN [st |-> after,
              result |-> [is_live |-> "True",
                          blink_count |-> after.blink_count,
                          time_elapsed |-> time_elapsed,
                          message |-> "Liveness verified"]]
        ELSE [st |-> after,
              result |-> [is_live |-> "None",
                          blink_count |-> after.blink_count,
                          time_elapsed |-> time_elapsed,
                          message |-> "Please blink naturally"]]

\* the detector's state
Detector ==
    [blink_count |-> blink_count, closed_frames |-> closed_frames,
     check_start_time |-> check_start_time]

\* the detector's state becomes st
SetDetector(st) ==
    /\ blink_count' = st.blink_count
    /\ closed_frames' = st.closed_frames
    /\ check_start_time' = st.check_start_time

\* the effect of a verify_liveness call on the detector; the call is noted
\* in hist with what the frame showed and the time read
LivenessCall(obs, r, out) ==
    /\ Len(hist) < MaxFrames
    /\ SetDetector(out.st)
    /\ hist' = Append(hist, [obs |-> obs, now |-> r[2], result |-> out.result])
    /\ clock' = r[2]

Reset ==
    /\ SetDetector(reset)
    /\ hist' = <<>>
    /\ UNCHANGED <<clock, ledgerVars, registryVars, matcherVars, appVars>>

VerifyLiveness ==
    \E obs \in EyeObs : \E r \in ClockReads(clock, 2) :
        /\ LivenessCall(obs, r, verify_liveness(Detector, obs, r))
        /\ UNCHANGED <<ledgerVars, registryVars, matcherVars, appVars>>

NextLiveness == Reset \/ VerifyLiveness \/ Tick

SpecLiveness == Init /\ [][NextLiveness]_vars

(***************************************************************************)
(* FaceMatcher and FaceStorage                                             *)
(***************************************************************************)
\* encoder.encode() returned None
NoEncoding == <<>>

\* the square root, of the perfect squares that arise here
Sqrt(n) == CHOOSE x \in 0..n : x * x = n

RECURSIVE SumSq(_, _)
SumSq(a, b) ==
    IF a = <<>> THEN 0
    ELSE (Head(a) - Head(b)) * (Head(a) - Head(b)) + SumSq(Tail(a), Tail(b))

\* np.linalg.norm(encoding1 - encoding2)
calculate_distance(encoding1, encoding2) ==
    IF encoding1 = NoEncoding \/ encoding2 = NoEncoding THEN Infinity
    ELSE Sqrt(SumSq(encoding1, encoding2))

\* np.argmin giving the last position of the least distance
argmin_last(distances) ==
    CHOOSE i \in DOMAIN distances :
        /\ \A j \in DOMAIN distances : distances[i] <= distances[j]
        /\ \A j \in DOMAIN distances : j > i => distances[j] > distances[i]

\* np.argmin: the first position of the least distance
argmin(distances) ==
    CHOOSE i \in DOMAIN distances :
        /\ \A j \in DOMAIN distances : distances[i] <= distances[j]
        /\ \A j \in DOMAIN distances : j < i => distances[j] > distances[i]

\* the result of a failed match with distance 0.0 for the distance found
NoMatch_zero(distance) ==
    [matched |-> FALSE, name |-> "None",
     confidence |-> [num |-> 0, den |-> self_threshold],
     distance |-> 0, index |-> None]

\* the result of a failed match; confidence is a fraction num/den
NoMatch(distance) ==
    [matched |-> FALSE, name |-> "None",
     confidence |-> [num |-> 0, den |-> self_threshold],
     distance |-> distance, index |-> None]

\* the confidence as best_distance / self.threshold
Confidence_ratio(best_distance) ==
    [num |-> best_distance, den |-> self_threshold]

\* max(0.0, 1.0 - (best_distance / self.threshold)), as a fraction
Confidence(best_distance) ==
    [num |-> IF self_threshold - best_distance > 0
             THEN self_threshold - best_distance ELSE 0,
     den |-> self_threshold]

\* best_distance <= self.threshold, with `<` for `<=`
WithinThreshold_lt(best_distance) == best_distance < self_threshold

\* best_distance <= self.threshold
WithinThreshold(best_distance) == best_distance <= self_threshold

\* len(known_names) != len(known_encodings), with `<` for `!=`
Mismatch_lt(known_encodings, known_names) ==
    Len(known_names) < Len(known_encodings)

\* len(known_names) != len(known_encodings)
Mismatch(known_encodings, known_names) ==
    Len(known_names) # Len(known_encodings)

\* known_encodings is the empty array or has one row for each encoding, so
\* the reshape of a one-dimensional array has nothing to do
match_face(query_encoding, known_encodings, known_names) ==
    IF query_encoding = NoEncoding \/ Len(known_encodings) = 0
    THEN NoMatch(Infinity)
    ELSE IF Mismatch(known_encodings, known_names)
    THEN NoMatch(Infinity)
    ELSE LET distances == [i \in DOMAIN known_encodings |->
                              calculate_distance(query_encoding, known_encodings[i])]
             best_match_idx == argmin(distances)
             best_distance == distances[best_match_idx]
         IN  IF WithinThreshold(best_distance)
             THEN [matched |-> TRUE, name |-> known_names[best_match_idx],
                   confidence |-> Confidence(best_distance),
                   distance |-> best_distance,
                   index |-> best_match_idx - 1]
             ELSE NoMatch(best_distance)

\* a match_face that keeps the result of the call before and answers with it
\* when the query is the same, whatever the registry and the threshold are
MatchCall_cached(query_encoding, known_encodings, known_names) ==
    <<[threshold |-> self_threshold,
       query_encoding |-> query_encoding,
       known_encodings |-> known_encodings,
       known_names |-> known_names,
       result |-> IF match # <<>> /\ match[1].query_encoding = query_encoding
                  THEN match[1].result
                  ELSE match_face(query_encoding, known_encodings, known_names)]>>

\* a match_face call as `match` keeps it: the threshold of the matcher at
\* the call, the arguments and the result
MatchCall(query_encoding, known_encodings, known_names) ==
    <<[threshold |-> self_threshold,
       query_encoding |-> query_encoding,
       known_encodings |-> known_encodings,
       known_names |-> known_names,
       result |-> match_face(query_encoding, known_encodings, known_names)]>>

\* the sequences of at most n elements of S
SeqsUpTo(S, n) == UNION {[1..k -> S] : k \in 0..n}

\* the encodings given to match_face as known_encodings and as query
KnownVectors == {<<3, 4>>, <<0, 8>>}
Queries == {NoEncoding, <<0, 0>>, <<3, 4>>, <<0, 8>>}

\* the values set_threshold is given
Thresholds == {5, 8}

\* match_face called with any query, any array of encodings and any list
\* of names
MatchFace ==
    \E q \in Queries : \E encs \in SeqsUpTo(KnownVectors, MaxFaces) :
        \E names \in SeqsUpTo(Names, MaxFaces) :
            /\ match' = MatchCall(q, encs, names)
            /\ UNCHANGED <<clock, ledgerVars, livenessVars, registryVars,
                           self_threshold, appVars>>

SetThreshold ==
    \E t \in Thresholds :
        /\ self_threshold' = t
        /\ UNCHANGED <<clock, ledgerVars, livenessVars, registryVars, match,
                       appVars>>

NextMatcher == MatchFace \/ SetThreshold

SpecMatcher == Init /\ [][NextMatcher]_vars

get_all_names(fs) == [i \in DOMAIN fs |-> fs[i].name]

\* a register_face that takes the id after the record is appended
register_face_id_after(fs, encs, name, encoding) ==
    [faces |-> Append(fs, [id |-> Len(fs) + 1, name |-> name]),
     encodings |-> Append(encs, encoding),
     face_id |-> Len(fs) + 1]

\* register_face(name, encoding): the new registry and the id given
\* (registered_at, which nothing reads, is left out)
register_face(fs, encs, name, encoding) ==
    [faces |-> Append(fs, [id |-> Len(fs), name |-> name]),
     encodings |-> Append(encs, encoding),
     face_id |-> Len(fs)]

\* the keys of an identity record, in the order register_face sets them
FaceKeys == <<"id", "name">>

\* _save_faces writing fs: the file after open(self.faces_file, 'w') and
\* json.dump(self.faces, f, indent=2)
_save_faces(fs) ==
    [content |-> "json",
     items |-> [i \in DOMAIN fs |->
                   [k \in DOMAIN FaceKeys |-> <<FaceKeys[k], fs[i][FaceKeys[k]]>>]]]

\* _load_faces: [] when the file does not exist, is empty, or does not parse
_load_faces(file) ==
    IF file.content = "json"
    THEN [i \in DOMAIN file.items |-> loads(file.items[i])]
    ELSE <<>>

\* the rows of an array, one after the other
RECURSIVE Flatten(_)
Flatten(encs) ==
    IF encs = <<>> THEN <<>> ELSE Head(encs) \o Flatten(Tail(encs))

\* np.save(self.encodings_file, self.encodings): the shape and the values,
\* np.array([]) having the shape (0,)
np_save(encs) ==
    [content |-> "npy",
     shape |-> IF encs = <<>> THEN <<0>> ELSE <<Len(encs), Len(encs[1])>>,
     data |-> Flatten(encs)]

\* np.load of a file np.save wrote
np_load(file) ==
    IF Len(file.shape) = 1
    THEN <<>>
    ELSE [i \in 1..file.shape[1] |->
             [k \in 1..file.shape[2] |-> file.data[(i - 1) * file.shape[2] + k]]]

\* _load_encodings: np.array([]) when the file does not exist or np.load
\* raises ValueError or IOError
_load_encodings(file) ==
    IF file.content = "npy" THEN np_load(file) ELSE <<>>

\* the file after a np.save that raised: the file is as it was, or only a
\* part of the array was written
FailedSaveNpy(file) == {file, NpyGarbage}

\* the encodings register_face is given
RegisterVectors == {<<3, 4>>, <<0, 8>>, <<6, 8>>}

\* register_face called with any name and any encoding
RegisterFace ==
    \E name \in Names : \E encoding \in RegisterVectors :
        LET reg == register_face(faces, encodings, name, encoding)
        IN  /\ Len(faces) < MaxIds
            /\ faces' = reg.faces
            /\ encodings' = reg.encodings
            /\ faces_file' = _save_faces(reg.faces)
            /\ encodings_file' = np_save(reg.encodings)
            /\ UNCHANGED <<clock, ledgerVars, livenessVars, matcherVars, appVars>>

NextRegistry == RegisterFace

SpecRegistry == Init /\ [][NextRegistry]_vars

\* the registry holds fewer than MaxFaces records and fewer than MaxFaces
\* vectors
RoomInStore == Len(faces) < MaxFaces /\ Len(encodings) < MaxFaces

\* register_face while there is room in the store
RegisterFaceStored == RegisterFace /\ RoomInStore

\* register_face whose _save_faces raises, or whose _save_encodings raises
\* after _save_faces has written the records
RegisterFaceSaveFails ==
    \E name \in Names : \E encoding \in RegisterVectors :
        LET reg == register_face(faces, encodings, name, encoding)
        IN  /\ RoomInStore
            /\ faces' = reg.faces
            /\ encodings' = reg.encodings
            /\ \/ /\ faces_file' \in FailedSave(faces_file)
                  /\ encodings_file' = encodings_file
               \/ /\ faces_file' = _save_faces(reg.faces)
                  /\ encodings_file' \in FailedSaveNpy(encodings_file)
            /\ UNCHANGED <<clock, ledgerVars, livenessVars, matcherVars, appVars>>

\* FaceStorage(): a new process loads the two files, each on its own
RestartRegistry ==
    /\ faces' = _load_faces(faces_file)
    /\ encodings' = _load_encodings(encodings_file)
    /\ UNCHANGED <<clock, ledgerVars, livenessVars, faces_file, encodings_file,
                   matcherVars, appVars>>

NextRegistryStore == RegisterFaceStored \/ RegisterFaceSaveFails \/ RestartRegistry

SpecRegistryStore == Init /\ [][NextRegistryStore]_vars

RECURSIVE SumAt(_, _)
SumAt(a, k) ==
    IF a = <<>> THEN 0 ELSE Head(a)[k] + SumAt(Tail(a), k)

\* np.mean(a, axis=0)
Mean(a) ==
    [k \in DOMAIN a[1] |-> SumAt(a, k) \div Len(a)]

(***************************************************************************)
(* main(): one iteration of the loop is ProcessFrame (capture, detect, the *)
(* branch of the current mode) followed by the handler of the key pressed. *)
(***************************************************************************)
\* the encodings the encoder gives for the faces shown to the camera
FrameEncodings == {<<0, 0>>, <<0, 8>>, <<12, 16>>}

\* a captured frame: how many faces the detector finds, and the encoding of
\* the first one
Frames ==
    {[faces |-> 0, encoding |-> NoEncoding], [faces |-> 2, encoding |-> <<0, 0>>]}
        \cup {[faces |-> 1, encoding |-> e] : e \in FrameEncodings \cup {NoEncoding}}

\* the samples the capture loop of a registration ends with: all of them,
\* or fewer when the camera fails or 'q' is pressed
SampleRuns ==
    {[i \in 1..num_samples |-> <<6, 8>>],
     [i \in 1..num_samples |-> IF i = 1 THEN <<0, 0>>
                               ELSE IF i = 2 THEN <<6, 8>> ELSE <<3, 4>>],
     [i \in 1..(num_samples - 1) |-> <<0, 8>>]}

\* len(samples) >= num_samples, with one sample less
EnoughSamples_but_one(a) == Len(a) >= num_samples - 1

\* len(samples) >= num_samples
EnoughSamples(a) == Len(a) >= num_samples

\* the instants at which a pause of d seconds begun at c can end
Sleep(c, d) == {t \in Instants : t >= c + d}

\* the match of the current frame against the registry
Recognize(f) == match_face(f.encoding, encodings, get_all_names(faces))

\* a face is in the frame, the registry is not empty and the face encodes
CanRecognize(f) == f.faces > 0 /\ Len(faces) > 0 /\ f.encoding # NoEncoding

\* result['is_live'] is True, with `is not False` for `is True`
LivenessPassed_not_false(result) == result.is_live # "False"

\* result['is_live'] is True
LivenessPassed(result) == result.is_live = "True"

\* mode == "idle": show who is recognized
IdleBranch(f) ==
    /\ IF CanRecognize(f)
       THEN last_recognition' =
                IF Recognize(f).matched THEN <<Recognize(f)>> ELSE <<>>
       ELSE UNCHANGED last_recognition
    /\ UNCHANGED <<clock, ledgerVars, livenessVars, mode, liveness_active>>

\* mode == "punch_in" and liveness_active: one step of the liveness check
LivenessBranch(f) ==
    IF f.faces = 0
    THEN UNCHANGED <<clock, ledgerVars, livenessVars, mode, liveness_active,
                     last_recognition>>
    ELSE \E obs \in EyeObs : \E r \in ClockReads(clock, 2) :
        LET v == verify_liveness(Detector, obs, r)
        IN  /\ Len(hist) < MaxFrames
            /\ SetDetector(v.st)
            /\ hist' = Append(hist, [obs |-> obs, now |-> r[2], result |-> v.result])
            /\ UNCHANGED last_recognition
            /\ IF LivenessPassed(v.result)
               THEN /\ liveness_active' = FALSE
                    /\ mode' = "idle"
                    /\ IF last_recognition # <<>> /\ last_recognition[1].matched
                       THEN \E r2 \in ClockReads(r[2], 4) :
                              LET p == punch_in(logs, last_recognition[1].name,
                                                last_recognition[1].index, r2)
                              IN  /\ LedgerEffect("punch_in", last_recognition[1].name, p)
                                  /\ clock' \in Sleep(LastRead(p.reads), 1)
                       ELSE /\ UNCHANGED ledgerVars
                            /\ clock' \in Sleep(r[2], 1)
               ELSE IF v.result.is_live = "False"
               THEN /\ liveness_active' = FALSE
                    /\ mode' = "idle"
                    /\ UNCHANGED ledgerVars
                    /\ clock' \in Sleep(r[2], 1)
               ELSE /\ UNCHANGED <<ledgerVars, mode, liveness_active>>
                    /\ clock' = r[2]

ProcessFrame ==
    /\ pc = "capture"
    /\ \E f \in Frames :
        /\ frame' = f
        /\ IF mode = "idle" THEN IdleBranch(f)
           ELSE IF mode = "punch_in" /\ liveness_active THEN LivenessBranch(f)
           ELSE UNCHANGED <<clock, ledgerVars, livenessVars, mode,
                            liveness_active, last_recognition>>
        /\ match' = IF mode = "idle" /\ CanRecognize(f)
                    THEN MatchCall(f.encoding, encodings, get_all_names(faces))
                    ELSE match
    /\ pc' = "key"
    /\ UNCHANGED <<registryVars, self_threshold, samples>>

\* cam.read_frame() failed: the loop ends
ReadFail ==
    /\ pc = "capture"
    /\ pc' = "done"
    /\ UNCHANGED <<clock, ledgerVars, livenessVars, registryVars, matcherVars,
                   mode, liveness_active, last_recognition, frame, samples>>

\* 'q': the loop ends
KeyQ ==
    /\ pc = "key"
    /\ pc' = "done"
    /\ UNCHANGED <<clock, ledgerVars, livenessVars, registryVars, matcherVars,
                   mode, liveness_active, last_recognition, frame, samples>>

\* no key, 's' (print the summary) or 'l' (print the registry)
KeyOther ==
    /\ pc = "key"
    /\ pc' = "capture"
    /\ UNCHANGED <<clock, ledgerVars, livenessVars, registryVars, matcherVars,
                   mode, liveness_active, last_recognition, frame, samples>>

\* 'i' without the reset() of the liveness detector
KeyI_no_reset ==
    /\ pc = "key"
    /\ pc' = "capture"
    /\ IF CanRecognize(frame) /\ Recognize(frame).matched
       THEN /\ last_recognition' = <<Recognize(frame)>>
            /\ UNCHANGED livenessVars
            /\ liveness_active' = TRUE
            /\ mode' = "punch_in"
       ELSE UNCHANGED <<last_recognition, livenessVars, liveness_active, mode>>
    /\ match' = IF CanRecognize(frame)
                THEN MatchCall(frame.encoding, encodings, get_all_names(faces))
                ELSE match
    /\ UNCHANGED <<clock, ledgerVars, registryVars, self_threshold, frame,
                   samples>>

\* 'i' that starts the liveness check without keeping the match it made
KeyI_keep_recognition ==
    /\ pc = "key"
    /\ pc' = "capture"
    /\ IF CanRecognize(frame) /\ Recognize(frame).matched
       THEN /\ UNCHANGED last_recognition
            /\ SetDetector(reset)
            /\ hist' = <<>>
            /\ liveness_active' = TRUE
            /\ mode' = "punch_in"
       ELSE UNCHANGED <<last_recognition, livenessVars, liveness_active, mode>>
    /\ match' = IF CanRecognize(frame)
                THEN MatchCall(frame.encoding, encodings, get_all_names(faces))
                ELSE match
    /\ UNCHANGED <<clock, ledgerVars, registryVars, self_threshold, frame,
                   samples>>

\* 'i': recognize, then start the liveness check
KeyI ==
    /\ pc = "key"
    /\ pc' = "capture"
    /\ IF CanRecognize(frame) /\ Recognize(frame).matched
       THEN /\ last_recognition' = <<Recognize(frame)>>
            /\ SetDetector(reset)
            /\ hist' = <<>>
            /\ liveness_active' = TRUE
            /\ mode' = "punch_in"
       ELSE UNCHANGED <<last_recognition, livenessVars, liveness_active, mode>>
    /\ match' = IF CanRecognize(frame)
                THEN MatchCall(frame.encoding, encodings, get_all_names(faces))
                ELSE match
    /\ UNCHANGED <<clock, ledgerVars, registryVars, self_threshold, frame,
                   samples>>

\* 'o' with a reset() of the liveness detector before the punch out
KeyO_with_reset ==
    /\ pc = "key"
    /\ pc' = "capture"
    /\ IF CanRecognize(frame) /\ Recognize(frame).matched
       THEN /\ \E r \in ClockReads(clock, 7) :
                 LedgerCall("punch_out", Recognize(frame).name,
                            punch_out(logs, Recognize(frame).name,
                                      Recognize(frame).index, r))
            /\ SetDetector(reset)
            /\ hist' = <<>>
       ELSE UNCHANGED <<clock, ledgerVars, livenessVars>>
    /\ match' = IF CanRecognize(frame)
                THEN MatchCall(frame.encoding, encodings, get_all_names(faces))
                ELSE match
    /\ UNCHANGED <<registryVars, self_threshold, mode, liveness_active,
                   last_recognition, frame, samples>>

\* 'o': recognize, then punch out
KeyO ==
    /\ pc = "key"
    /\ pc' = "capture"
    /\ IF CanRecognize(frame) /\ Recognize(frame).matched
       THEN \E r \in ClockReads(clock, 7) :
              LedgerCall("punch_out", Recognize(frame).name,
                         punch_out(logs, Recognize(frame).name,
                                   Recognize(frame).index, r))
       ELSE UNCHANGED <<clock, ledgerVars>>
    /\ match' = IF CanRecognize(frame)
                THEN MatchCall(frame.encoding, encodings, get_all_names(faces))
                ELSE match
    /\ UNCHANGED <<livenessVars, registryVars, self_threshold, mode,
                   liveness_active, last_recognition, frame, samples>>

\* 'r': ask the name, capture the samples, register their mean
KeyR ==
    /\ pc = "key"
    /\ pc' = "capture"
    /\ \E name \in Names \cup {""} :
        IF frame.faces # 1 \/ name = ""
        THEN UNCHANGED <<clock, registryVars, mode, samples>>
        ELSE /\ \E run \in SampleRuns :
                  /\ samples' = run
                  /\ IF EnoughSamples(run)
                     THEN LET reg == register_face(faces, encodings, name, Mean(run))
                          IN  /\ Len(faces) < MaxFaces
                              /\ faces' = reg.faces
                              /\ encodings' = reg.encodings
                              /\ faces_file' = _save_faces(reg.faces)
                              /\ encodings_file' = np_save(reg.encodings)
                     ELSE UNCHANGED registryVars
             /\ clock' \in Sleep(clock, 2)
             /\ mode' = "idle"
    /\ UNCHANGED <<ledgerVars, livenessVars, matcherVars, liveness_active,
                   last_recognition, frame>>

Next ==
    \/ ProcessFrame
    \/ ReadFail
    \/ KeyOther
    \/ KeyQ
    \/ KeyI
    \/ KeyO
    \/ KeyR
    \/ Tick

Spec == Init /\ [][Next]_vars

\* the loop goes on while it has not ended: a frame is read or the read
\* fails, then the key is handled; and time passes
SpecFair ==
    /\ Spec
    /\ WF_vars(ProcessFrame \/ ReadFail)
    /\ WF_vars(KeyOther \/ KeyQ \/ KeyI \/ KeyO \/ KeyR)
    /\ WF_vars(Tick)

\* a store two identities were registered in by an earlier run
StoredFaces == <<[id |-> 0, name |-> "alice"], [id |-> 1, name |-> "bob"]>>
StoredEncodings == <<<<0, 0>>, <<3, 4>>>>

\* the state after construction over that store: FaceStorage() has loaded
\* the two files, the log is empty
InitRegistered ==
    /\ clock = StartTime
    /\ logs = <<>>
    /\ log_file = FileAbsent
    /\ ret = NoRet
    /\ call = NoCall
    /\ blink_count = 0
    /\ closed_frames = 0
    /\ check_start_time = None
    /\ hist = <<>>
    /\ faces_file = _save_faces(StoredFaces)
    /\ encodings_file = np_save(StoredEncodings)
    /\ faces = _load_faces(faces_file)
    /\ encodings = _load_encodings(encodings_file)
    /\ self_threshold = threshold
    /\ match = <<>>
    /\ mode = "idle"
    /\ liveness_active = FALSE
    /\ last_recognition = <<>>
    /\ frame = [faces |-> 0, encoding |-> <<>>]
    /\ samples = <<>>
    /\ pc = "capture"

\* the main loop over a store that holds two identities, with the keys that
\* bear on an entry attempt
\* a loop iteration of a liveness check of no more than MaxCheck frames
ProcessFrameOfCheck == ProcessFrame /\ Len(hist') <= MaxCheck

NextEntry == ProcessFrameOfCheck \/ ReadFail \/ KeyOther \/ KeyQ \/ KeyI \/ KeyR

SpecEntry == InitRegistered /\ [][NextEntry]_vars

(***************************************************************************)
(* Properties of the ledger                                                *)
(***************************************************************************)
\* a step in which a ledger operation was called
LedgerStep(op) ==
    /\ <<logs, ret, call>>' # <<logs, ret, call>>
    /\ call'.op = op

\* the events of a name in a log, as positions
EventsOf(ls, name) == {i \in 1..Len(ls) : ls[i].name = name}

\* the most recent event of a name whose occurredAt is within the window
\* before `now`, or none
MostRecentInWindow(ls, name, now) ==
    LET idx == {i \in EventsOf(ls, name) :
                    now - fromisoformat(ls[i].timestamp) <= DedupWindow}
    IN  IF idx = {} THEN <<>> ELSE <<ls[Max(idx)]>>

\* the last event of a name, or none
LastEventOf(ls, name) ==
    IF EventsOf(ls, name) = {} THEN <<>> ELSE <<ls[Max(EventsOf(ls, name))]>>

\* the call appended exactly one event to the log and saved it
AppendedOne(name, kind) ==
    /\ Len(logs') = Len(logs) + 1
    /\ SubSeq(logs', 1, Len(logs)) = logs
    /\ logs'[Len(logs')].name = name
    /\ logs'[Len(logs')].type = kind
    /\ ret'.success
    /\ ret'.entry = logs'[Len(logs')]
    /\ log_file'.content = "json"
    /\ _load_logs(log_file') = logs'

\* the call was rejected with a reason and changed neither log nor file
Rejected(reason) ==
    /\ ~ret'.success
    /\ ret'.type = reason
    /\ logs' = logs
    /\ log_file' = log_file

\* C1: when the last event of a name is an ENTRY at time t, a punchIn for the
\* name whose clock read is t+d is rejected as duplicate if d <= 10 seconds
\* and is accepted, appending a second ENTRY, if d > 10 seconds.
C1_PunchInDedup ==
    [][LedgerStep("punch_in") =>
        LET name == call'.name
            last == LastEventOf(logs, name)
            d == call'.reads[2] - fromisoformat(last[1].timestamp)
        IN  (last # <<>> /\ last[1].type = "punch_in") =>
                IF d <= DedupWindow
                THEN Rejected("duplicate")
                ELSE AppendedOne(name, "punch_in")]_vars

\* C1 witness: a name has two ENTRY events in a row more than 10 seconds
\* apart, and a further punchIn for it has just been rejected as duplicate.
C1_Witness ==
    /\ call.op = "punch_in"
    /\ ~ret.success /\ ret.type = "duplicate"
    /\ \E i, j \in EventsOf(logs, call.name) :
        /\ i < j
        /\ \A k \in EventsOf(logs, call.name) : ~(i < k /\ k < j)
        /\ logs[i].type = "punch_in" /\ logs[j].type = "punch_in"
        /\ fromisoformat(logs[j].timestamp)
             - fromisoformat(logs[i].timestamp) > DedupWindow

\* C2: a punchOut for a name that has no event dated the current calendar
\* day (none at all, or only events of earlier days) is rejected with the
\* reason "not punched in" and appends nothing.
C2_PunchOutGate ==
    [][LedgerStep("punch_out") =>
        LET name == call'.name
            today == strftime_date(call'.reads[2])
        IN  (\A i \in EventsOf(logs, name) : logs[i].date # today) =>
                Rejected("not_punched_in")]_vars

\* C2 witness: a punchOut was rejected as "not punched in" for a name whose
\* only events are of an earlier day.
C2_Witness ==
    /\ call.op = "punch_out"
    /\ ~ret.success /\ ret.type = "not_punched_in"
    /\ EventsOf(logs, call.name) # {}
    /\ \A i \in EventsOf(logs, call.name) :
        /\ logs[i].date < strftime_date(call.reads[2])
        /\ strftime_date(fromisoformat(logs[i].timestamp))
             < strftime_date(call.reads[2])

\* the ENTRY events of a name dated a given day
EntriesOn(ls, name, day) ==
    {i \in EventsOf(ls, name) : ls[i].type = "punch_in" /\ ls[i].date = day}

\* C3: the duration recorded by an accepted punchOut is the punch-out time
\* (the clock read taken for it) minus the occurredAt of the latest ENTRY of
\* that name dated the same calendar day as the EXIT: the latest of several,
\* inside the 10-second window or not, never one of another day.
C3_Duration ==
    [][(LedgerStep("punch_out") /\ ret'.success
            /\ "duration_str" \in DOMAIN ret'.entry) =>
        LET name == call'.name
            today == ret'.entry.date
            ins == EntriesOn(logs, name, today)
        IN  /\ ins # {}
            /\ ret'.entry.duration_str =
                 call'.reads[7] - fromisoformat(logs[Max(ins)].timestamp)
            /\ ret'.entry.duration_hours =
                 duration_hours(ret'.entry.duration_str)]_vars

\* C3 witness: an accepted punchOut recorded a duration for a name with two
\* ENTRY events that day and one of an earlier day, the latest ENTRY lying
\* outside the 10-second window.
C3_Witness ==
    /\ call.op = "punch_out" /\ ret.success
    /\ "duration_str" \in DOMAIN ret.entry
    /\ ret.entry.duration_str > DedupWindow
    /\ Cardinality(EntriesOn(logs, call.name, ret.entry.date)) >= 2

\* C9 as stated: a punchIn is rejected exactly when the most recent event of
\* the name within the last 10 seconds is an ENTRY, and otherwise appends
\* one ENTRY.
C9_Original ==
    [][LedgerStep("punch_in") =>
        LET name == call'.name
            recent == MostRecentInWindow(logs, name, call'.reads[2])
        IN  IF recent # <<>> /\ recent[1].type = "punch_in"
            THEN Rejected("duplicate")
            ELSE AppendedOne(name, "punch_in")]_vars

\* C9 amended: a punchIn is rejected exactly when the name has an event
\* within the last 10 seconds: as duplicate when the most recent one is an
\* ENTRY, as already completed when it is an EXIT; otherwise, whatever
\* happened earlier that day, it appends one ENTRY.
C9_Amended ==
    [][LedgerStep("punch_in") =>
        LET name == call'.name
            recent == MostRecentInWindow(logs, name, call'.reads[2])
        IN  IF recent = <<>> THEN AppendedOne(name, "punch_in")
            ELSE IF recent[1].type = "punch_in" THEN Rejected("duplicate")
            ELSE Rejected("already_completed")]_vars

\* C9 witness: a punchIn was rejected as already completed, the most recent
\* event of the name in the window being an EXIT.
C9_Witness ==
    /\ call.op = "punch_in"
    /\ ~ret.success /\ ret.type = "already_completed"
    /\ MostRecentInWindow(logs, call.name, call.reads[2]) # <<>>
    /\ MostRecentInWindow(logs, call.name, call.reads[2])[1].type = "punch_out"

\* C10 as stated: a punchOut is rejected as duplicate whenever the most
\* recent event of the name within the last 10 seconds is an EXIT, also
\* across a change of calendar day.
C10_Original ==
    [][LedgerStep("punch_out") =>
        LET name == call'.name
            recent == MostRecentInWindow(logs, name, call'.reads[3])
        IN  (recent # <<>> /\ recent[1].type = "punch_out") =>
                Rejected("duplicate")]_vars

\* C10 amended: whenever the most recent event of the name within the last
\* 10 seconds is an EXIT, a punchOut is rejected and appends nothing; the
\* reason is duplicate when the name has an event dated the current day and
\* "not punched in" when it has none (the window straddles midnight).
C10_Amended ==
    [][LedgerStep("punch_out") =>
        LET name == call'.name
            recent == MostRecentInWindow(logs, name, call'.reads[3])
            today == strftime_date(call'.reads[2])
        IN  (recent # <<>> /\ recent[1].type = "punch_out") =>
                IF \E i \in EventsOf(logs, name) : logs[i].date = today
                THEN Rejected("duplicate")
                ELSE Rejected("not_punched_in")]_vars

\* C10 witness: a punchOut made on a new day within 10 seconds of the EXIT
\* of the day before was rejected.
C10_Witness ==
    /\ call.op = "punch_out"
    /\ ~ret.success /\ ret.type = "not_punched_in"
    /\ LET recent == MostRecentInWindow(logs, call.name, call.reads[3])
       IN  /\ recent # <<>>
           /\ recent[1].type = "punch_out"
           /\ recent[1].date < strftime_date(call.reads[2])

\* C11: a punchOut for a name that has an event dated the current calendar
\* day, and whose most recent event within the last 10 seconds is not an
\* EXIT (an ENTRY, or no event at all in the window), is accepted and appends
\* one EXIT: right after a punchIn, and again more than 10 seconds after an
\* earlier EXIT.
C11_PunchOutAccepted ==
    [][LedgerStep("punch_out") =>
        LET name == call'.name
            today == strftime_date(call'.reads[2])
            recent == MostRecentInWindow(logs, name, call'.reads[3])
        IN  (/\ \E i \in EventsOf(logs, name) : logs[i].date = today
             /\ ~(recent # <<>> /\ recent[1].type = "punch_out"))
                => AppendedOne(name, "punch_out")]_vars

\* C11 witness: a name's log is an ENTRY, an EXIT at the same instant and a
\* second EXIT more than 10 seconds after the first, all of one day.
C11_Witness ==
    /\ call.op = "punch_out" /\ ret.success
    /\ Len(logs) = 3
    /\ \A i \in 1..3 : logs[i].name = call.name /\ logs[i].date = logs[1].date
    /\ logs[1].type = "punch_in"
    /\ logs[2].type = "punch_out" /\ logs[2].timestamp = logs[1].timestamp
    /\ logs[3].type = "punch_out"
    /\ fromisoformat(logs[3].timestamp) - fromisoformat(logs[2].timestamp)
         > DedupWindow

\* the events of a name dated a given day, as positions
DayEventsOf(ls, name, day) == {i \in EventsOf(ls, name) : ls[i].date = day}

\* the daily status the log gives a name on a day
DailyStatus(ls, name, day) ==
    IF DayEventsOf(ls, name, day) = {} THEN "none"
    ELSE IF ls[Max(DayEventsOf(ls, name, day))].type = "punch_in" THEN "in"
    ELSE "out"

\* C12: statusToday(name) answers none when the name has no event dated the
\* current calendar day, checked-in when its last event of that day is an
\* ENTRY and completed when it is an EXIT, and changes nothing; so the
\* statusToday call that follows an accepted punchIn (punchOut) of the name,
\* on the day of that event, answers checked-in (completed).
C12_StatusToday ==
    [][LedgerStep("get_status") =>
        LET name == call'.name
            today == strftime_date(call'.reads[1])
        IN  /\ ret'.status = DailyStatus(logs, name, today)
            /\ logs' = logs /\ log_file' = log_file
            /\ (/\ call.op \in {"punch_in", "punch_out"}
                /\ call.name = name
                /\ ret.success
                /\ ret.entry.date = today)
                   => ret'.status = IF call.op = "punch_in" THEN "in" ELSE "out"]_vars

\* C12 witness: statusToday answered completed for a name whose log is an
\* ENTRY of an earlier day followed by an ENTRY and an EXIT of the current
\* day.
C12_Witness ==
    /\ call.op = "get_status"
    /\ ret.status = "out"
    /\ Len(logs) = 3
    /\ \A i \in 1..3 : logs[i].name = call.name
    /\ logs[1].type = "punch_in"
    /\ logs[1].date < strftime_date(call.reads[1])
    /\ logs[2].type = "punch_in" /\ logs[3].type = "punch_out"
    /\ logs[2].date = strftime_date(call.reads[1])
    /\ logs[3].date = strftime_date(call.reads[1])

\* the EXIT events of a name dated a given day
ExitsOn(ls, name, day) ==
    {i \in EventsOf(ls, name) : ls[i].type = "punch_out" /\ ls[i].date = day}

\* the time of the latest of the events idx, or None
LatestTime(ls, idx) == IF idx = {} THEN None ELSE ls[Max(idx)].time

\* the value of an optional key of a record, as a sequence of 0 or 1 values
Optional(rec, key) == IF key \in DOMAIN rec THEN <<rec[key]>> ELSE <<>>

\* C13: summaryToday returns one record for each name that has an event
\* dated the current day and none for any other name; a record carries the
\* time of the name's latest ENTRY of the day, the time of its latest EXIT of
\* the day and that EXIT's duration (no duration when there is no EXIT); its
\* status is Completed when the day has an ENTRY and an EXIT of the name and
\* Checked In when it has an ENTRY only.  The call changes nothing.
C13_SummaryToday ==
    [][LedgerStep("get_today_summary") =>
        LET today == strftime_date(call'.reads[2])
            present == {n \in Names : DayEventsOf(logs, n, today) # {}}
            summary == ret'.summary
        IN  /\ Len(summary) = Cardinality(present)
            /\ {summary[i].name : i \in DOMAIN summary} = present
            /\ logs' = logs /\ log_file' = log_file
            /\ \A i \in DOMAIN summary :
                 LET ins == EntriesOn(logs, summary[i].name, today)
                     outs == ExitsOn(logs, summary[i].name, today)
                 IN  /\ summary[i].punch_in = LatestTime(logs, ins)
                     /\ summary[i].punch_out = LatestTime(logs, outs)
                     /\ Optional(summary[i], "duration") =
                          IF outs = {} THEN <<>>
                          ELSE Optional(logs[Max(outs)], "duration_str")
                     /\ (ins # {} /\ outs # {}) => summary[i].status = "Completed"
                     /\ (ins # {} /\ outs = {}) => summary[i].status = "Checked In"]_vars

\* C13 witness: on a day with an ENTRY of one name, an ENTRY of another and
\* an EXIT of the first, the summary has two records, Completed with a
\* duration for the first name and Checked In without one for the second.
C13_Witness ==
    /\ call.op = "get_today_summary"
    /\ Len(logs) = 3
    /\ logs[1].type = "punch_in" /\ logs[2].type = "punch_in"
    /\ logs[3].type = "punch_out"
    /\ logs[1].name # logs[2].name /\ logs[3].name = logs[1].name
    /\ Len(ret.summary) = 2
    /\ ret.summary[1].name = logs[1].name
    /\ ret.summary[1].status = "Completed"
    /\ ret.summary[1].punch_in = logs[1].time
    /\ ret.summary[1].punch_out = logs[3].time
    /\ "duration" \in DOMAIN ret.summary[1]
    /\ ret.summary[2].name = logs[2].name
    /\ ret.summary[2].status = "Checked In"
    /\ ret.summary[2].punch_out = None
    /\ "duration" \notin DOMAIN ret.summary[2]

\* C14: the log is append-only.  A step either leaves the log as it was or
\* is an accepted punchIn or punchOut that appends exactly the event it
\* returns after the events already there, which keep their positions and
\* contents; a rejected punch, statusToday and summaryToday leave it as it
\* was.  The same holds of the log file.
C14_AppendOnly ==
    [][/\ \/ logs' = logs
          \/ /\ call'.op \in {"punch_in", "punch_out"}
             /\ ret'.success
             /\ logs' = Append(logs, ret'.entry)
       /\ \/ log_file' = log_file
          \/ /\ log_file'.content = "json"
             /\ _load_logs(log_file') = Append(_load_logs(log_file), ret'.entry)
       /\ (LedgerStep("get_status") \/ LedgerStep("get_today_summary"))
             => logs' = logs
       /\ ((LedgerStep("punch_in") \/ LedgerStep("punch_out")) /\ ~ret'.success)
             => logs' = logs]_vars

\* C14 witness: with three events in the log, a punch was rejected, and log
\* and file hold the same three events.
C14_Witness ==
    /\ Len(logs) = 3
    /\ call.op \in {"punch_in", "punch_out"}
    /\ ~ret.success
    /\ log_file.content = "json"
    /\ _load_logs(log_file) = logs
    /\ \E i \in 1..3 : logs[i].name # call.name

\* positions i < j hold two events of a name with none of its events between
ConsecutiveOf(ls, name, i, j) ==
    /\ i \in EventsOf(ls, name) /\ j \in EventsOf(ls, name)
    /\ i < j
    /\ \A k \in EventsOf(ls, name) : ~(i < k /\ k < j)

\* C15: in every reachable state of the ledger, two events of one name that
\* follow each other among that name's events and are of the same kind have
\* occurredAt timestamps more than 10 seconds apart.
C15_NoCloseRepeat ==
    \A name \in Names : \A i, j \in 1..Len(logs) :
        (ConsecutiveOf(logs, name, i, j) /\ logs[i].type = logs[j].type)
            => fromisoformat(logs[j].timestamp)
                 - fromisoformat(logs[i].timestamp) > DedupWindow

\* C15 witness: a name has two EXIT events in a row exactly 11 seconds
\* apart, and a punchOut made within 10 seconds of the second was rejected.
C15_Witness ==
    /\ call.op = "punch_out"
    /\ ~ret.success /\ ret.type = "duplicate"
    /\ \E i, j \in 1..Len(logs) :
        /\ ConsecutiveOf(logs, call.name, i, j)
        /\ logs[i].type = "punch_out" /\ logs[j].type = "punch_out"
        /\ fromisoformat(logs[j].timestamp)
             - fromisoformat(logs[i].timestamp) = DedupWindow + 1

(***************************************************************************)
(* Properties of the liveness detector                                     *)
(***************************************************************************)
\* the eyes are visible (detected open) in call i of the session
Visible(i) == hist[i].obs = "open"

\* the time at which the session started: the timer latched by its first call
SessionStart == check_start_time

\* C5 as stated: a call returns LIVE only if, since the last reset, the
\* eyes were seen not visible and later visible again (a closed-to-open
\* transition); a session with the eyes visible on every call, or on none,
\* never yields LIVE.
C5_LiveNeedsBlink ==
    \A i \in DOMAIN hist :
        hist[i].result.is_live = "True" =>
            \E j, k \in 1..i : j < k /\ ~Visible(j) /\ Visible(k)

\* C6: a call whose clock read is more than the timeout after the session
\* start returns NOT_LIVE, whatever the frame shows and whatever blinks were
\* counted; a call at or before the timeout does not return NOT_LIVE.
C6_Timeout ==
    \A i \in DOMAIN hist :
        /\ hist[i].result.time_elapsed = hist[i].now - SessionStart
        /\ hist[i].now - SessionStart > max_check_duration
             <=> hist[i].result.is_live = "False"

\* C6 witness: in one session a call exactly at the timeout was not
\* rejected, a blink was counted, and a later call past the timeout was
\* rejected though the eyes were open.
C6_Witness ==
    \E i, j \in DOMAIN hist :
        /\ i < j
        /\ hist[i].result.time_elapsed = max_check_duration
        /\ hist[i].result.is_live # "False"
        /\ hist[j].result.time_elapsed > max_check_duration
        /\ hist[j].result.is_live = "False"
        /\ hist[j].obs = "open"
        /\ hist[j].result.blink_count >= 1

\* C7 as stated: in a session where the eyes are visible on every call, or
\* on none, every call returns PENDING up to the timeout and NOT_LIVE after
\* it, never LIVE.
C7_ConstantNeverLive ==
    ((\A i \in DOMAIN hist : Visible(i)) \/ (\A i \in DOMAIN hist : ~Visible(i)))
        => \A i \in DOMAIN hist :
              hist[i].result.is_live =
                  IF hist[i].now - SessionStart > max_check_duration
                  THEN "False" ELSE "None"

\* C8 as stated: when a session sees visible, not visible, not visible,
\* visible within the timeout, LIVE is returned on the fourth call and on
\* none of the first three.
C8_BlinkAccepted ==
    (/\ Len(hist) >= 4
     /\ Visible(1) /\ ~Visible(2) /\ ~Visible(3) /\ Visible(4)
     /\ hist[4].now - SessionStart <= max_check_duration)
        => /\ hist[4].result.is_live = "True"
           /\ \A i \in 1..3 : hist[i].result.is_live # "True"

\* C28: PASSED and FAILED are terminal.  Once a call has returned LIVE or
\* NOT_LIVE, every later call made before the next reset returns that same
\* verdict.
C28_Terminal ==
    \A i, j \in DOMAIN hist :
        (i < j /\ hist[i].result.is_live \in {"True", "False"})
            => hist[j].result.is_live = hist[i].result.is_live

\* C28 witness: with no reset in between, a call returned LIVE and a later
\* call, past the timeout, returned NOT_LIVE.
C28_Witness ==
    \E i, j \in DOMAIN hist :
        /\ i < j
        /\ hist[i].result.is_live = "True"
        /\ hist[j].result.is_live = "False"
        /\ hist[j].result.time_elapsed > max_check_duration

(***************************************************************************)
(* Properties of the main loop                                             *)
(***************************************************************************)
\* the events a step appended to the log
Appended == {i \in (Len(logs) + 1)..Len(logs') : TRUE}

\* C4: an ENTRY is appended to the ledger only by the step in which the
\* liveness check of the running entry attempt returned LIVE; a step of an
\* attempt that returned NOT_LIVE or PENDING, and any step outside an
\* attempt, appends no ENTRY.
C4_PunchInOnlyAfterLive ==
    [][(\E i \in Appended : logs'[i].type = "punch_in") =>
        /\ mode = "punch_in" /\ liveness_active
        /\ Len(hist') = Len(hist) + 1
        /\ hist'[Len(hist')].result.is_live = "True"
        /\ mode' = "idle" /\ ~liveness_active'
        /\ last_recognition # <<>>
        /\ \A i \in Appended : logs'[i].name = last_recognition[1].name]_vars

\* C4 witness: the liveness check of an entry attempt returned LIVE and that
\* step appended the first ENTRY, ending the attempt.
C4_Witness ==
    /\ Len(logs) = 1
    /\ logs[1].type = "punch_in"
    /\ call.op = "punch_in" /\ ret.success
    /\ hist # <<>>
    /\ hist[Len(hist)].result.is_live = "True"
    /\ mode = "idle" /\ ~liveness_active
    /\ pc = "key"

(***************************************************************************)
(* Properties of the matcher                                               *)
(***************************************************************************)
Min(S) == CHOOSE x \in S : \A y \in S : x <= y

\* the distances from the query of a call to its known encodings
DistancesOf(m) ==
    {calculate_distance(m.query_encoding, m.known_encodings[i]) :
        i \in DOMAIN m.known_encodings}

\* the call has a query and a registry that is not empty and has one name for
\* each encoding
WellFormed(m) ==
    /\ m.query_encoding # NoEncoding
    /\ Len(m.known_encodings) > 0
    /\ Len(m.known_names) = Len(m.known_encodings)

\* the non-match result: no match, no name, no index, distance +infinity,
\* confidence 0
IsNonMatch(result) ==
    /\ ~result.matched
    /\ result.name = "None"
    /\ result.index = None
    /\ result.distance = Infinity
    /\ result.confidence.num = 0

\* C16: for a query and a registry that is not empty and well formed, match
\* answers matched exactly when the least distance from the query to a
\* registry vector is less than or equal to the threshold; a least distance
\* equal to the threshold is accepted.
C16_ThresholdGate ==
    \A c \in DOMAIN match :
        WellFormed(match[c]) =>
            (match[c].result.matched
                <=> Min(DistancesOf(match[c])) <= match[c].threshold)

\* C16 witness: a query whose least distance to a registry of two is exactly
\* the threshold was matched.
C16_Witness ==
    /\ match # <<>>
    /\ WellFormed(match[1])
    /\ Len(match[1].known_encodings) = 2
    /\ Min(DistancesOf(match[1])) = match[1].threshold
    /\ match[1].result.matched

\* a confidence is at most another
ConfidenceLeq(a, b) == a.num * b.den <= b.num * a.den

\* C17: the confidence of a result is max(0, 1 - distance/threshold) when
\* the match is accepted and 0 otherwise; it lies in [0,1], is 1 at distance
\* 0 and 0 at distance equal to the threshold; and of two calls made with
\* the same threshold, the one with the greater distance does not have the
\* greater confidence.
C17_Confidence ==
    [][match' # match =>
        LET m == match'[1]
            conf == m.result.confidence
            d == m.result.distance
        IN  /\ conf.den > 0
            /\ 0 <= conf.num /\ conf.num <= conf.den
            /\ IF m.result.matched
               THEN /\ conf.num * m.threshold
                         = conf.den * (IF m.threshold - d > 0
                                       THEN m.threshold - d ELSE 0)
                    /\ d = 0 => conf.num = conf.den
                    /\ d = m.threshold => conf.num = 0
               ELSE conf.num = 0
            /\ (/\ match # <<>>
                /\ match[1].threshold = m.threshold
                /\ match[1].result.distance <= d)
                  => ConfidenceLeq(conf, match[1].result.confidence)]_vars

\* C17 witness: an accepted match at a distance strictly between 0 and the
\* threshold has a confidence strictly between 0 and 1.
C17_Witness ==
    /\ match # <<>>
    /\ match[1].result.matched
    /\ 0 < match[1].result.distance
    /\ match[1].result.distance < match[1].threshold
    /\ 0 < match[1].result.confidence.num
    /\ match[1].result.confidence.num < match[1].result.confidence.den

\* C18: a match with an absent query, or with an empty registry, returns the
\* non-match result whatever the other arguments and the threshold are.
C18_NothingToMatch ==
    \A c \in DOMAIN match :
        (match[c].query_encoding = NoEncoding \/ Len(match[c].known_encodings) = 0)
            => IsNonMatch(match[c].result)

\* C18 witness: an absent query was matched against a registry of two with
\* two names, the threshold being another than the one the matcher was
\* made with.
C18_Witness ==
    /\ match # <<>>
    /\ match[1].query_encoding = NoEncoding
    /\ Len(match[1].known_encodings) = 2
    /\ Len(match[1].known_names) = 2
    /\ match[1].threshold # threshold
    /\ IsNonMatch(match[1].result)

\* C19: the identity of an accepted match is the registry entry at the
\* least distance from the query, the one of lowest index when several are
\* at that distance; the name reported is the name at that index and the
\* distance reported is that entry's.
C19_Selection ==
    \A c \in DOMAIN match :
        match[c].result.matched =>
            LET m == match[c]
                at == m.result.index + 1
                dist(i) == calculate_distance(m.query_encoding, m.known_encodings[i])
            IN  /\ at \in DOMAIN m.known_encodings
                /\ dist(at) = Min(DistancesOf(m))
                /\ \A j \in 1..(at - 1) : dist(j) > dist(at)
                /\ m.result.name = m.known_names[at]
                /\ m.result.distance = dist(at)

\* C19 witness: two entries with different names are at the same least
\* distance from the query, and the match reports the one of lower index.
C19_Witness ==
    /\ match # <<>>
    /\ match[1].result.matched
    /\ LET m == match[1]
           at == m.result.index + 1
       IN  \E j \in DOMAIN m.known_encodings :
              /\ j > at
              /\ calculate_distance(m.query_encoding, m.known_encodings[j])
                   = m.result.distance
              /\ m.known_names[j] # m.known_names[at]
              /\ m.result.name = m.known_names[at]

\* C20: when the list of names and the array of encodings have different
\* lengths, match returns the non-match result, whatever the query, also a
\* query equal to a stored vector.
C20_LengthMismatch ==
    \A c \in DOMAIN match :
        Len(match[c].known_names) # Len(match[c].known_encodings)
            => IsNonMatch(match[c].result)

\* C20 witness: a query equal to a stored vector was not matched, the
\* registry having more names than vectors.
C20_Witness ==
    /\ match # <<>>
    /\ Len(match[1].known_names) > Len(match[1].known_encodings)
    /\ \E i \in DOMAIN match[1].known_encodings :
          match[1].known_encodings[i] = match[1].query_encoding
    /\ IsNonMatch(match[1].result)

\* the arguments and the threshold of two calls are the same
SameCall(m1, m2) ==
    /\ m1.threshold = m2.threshold
    /\ m1.query_encoding = m2.query_encoding
    /\ m1.known_encodings = m2.known_encodings
    /\ m1.known_names = m2.known_names

C22_Ids ==
    /\ [](/\ Len(encodings) = Len(faces)
          /\ \A i \in DOMAIN faces : faces[i].id = i - 1)
    /\ [][faces' # faces =>
            /\ Len(faces') = Len(faces) + 1
            /\ SubSeq(faces', 1, Len(faces)) = faces
            /\ faces'[Len(faces')].id = Len(faces)
            /\ Len(encodings') = Len(encodings) + 1
            /\ SubSeq(encodings', 1, Len(encodings)) = encodings]_vars

\* C22 witness: three identities were registered, the first and the third
\* under the same name and with different vectors; their ids are 0, 1, 2.
C22_Witness ==
    /\ Len(faces) = 3
    /\ faces[1].name = faces[3].name
    /\ faces[1].name # faces[2].name
    /\ encodings[1] # encodings[3]
    /\ faces[1].id = 0 /\ faces[2].id = 1 /\ faces[3].id = 2

\* C23: the vector stored for a newly registered identity is the
\* element-wise mean of the samples captured for it, which are num_samples
\* (7) samples; a capture that ended with fewer samples stores nothing.
C23_Averaging ==
    [][(faces' # faces \/ encodings' # encodings) =>
        /\ Len(samples') = num_samples
        /\ Len(encodings') = Len(encodings) + 1
        /\ \A k \in DOMAIN encodings'[Len(encodings')] :
              num_samples * encodings'[Len(encodings')][k] = SumAt(samples', k)
        /\ DOMAIN encodings'[Len(encodings')] = DOMAIN samples'[1]]_vars

\* C23 witness: after one identity was stored, the last registration
\* captured seven samples that are not all the same and a second identity
\* is stored with their mean, which is none of the samples.
C23_Witness ==
    /\ Len(faces) = 2
    /\ Len(samples) = num_samples
    /\ \E i, j \in DOMAIN samples : samples[i] # samples[j]
    /\ encodings[2] = <<3, 4>>
    /\ \A k \in 1..2 : num_samples * encodings[2][k] = SumAt(samples, k)
    /\ pc = "capture"

(***************************************************************************)
(* Properties of the ledger and its file                                   *)
(***************************************************************************)
\* a step in which punch_in or punch_out was called
PunchStep == LedgerStep("punch_in") \/ LedgerStep("punch_out")

\* C24: a rejected punchIn or punchOut returns a value: success is false,
\* the reason is duplicate, already_completed or not_punched_in, the message
\* is not empty and no event comes with it; the log in memory and the log
\* file are what they were before the call.
C24_Rejection ==
    [][(PunchStep /\ ~ret'.success) =>
        /\ ret' # Raised
        /\ ret'.type \in {"duplicate", "already_completed", "not_punched_in"}
        /\ ret'.message # <<>>
        /\ "entry" \notin DOMAIN ret'
        /\ logs' = logs
        /\ log_file' = log_file]_vars

\* C24 witness: a punchOut was rejected as duplicate, the log holding an
\* ENTRY and an EXIT of the name, and the file holds those two events.
C24_Witness ==
    /\ call.op = "punch_out"
    /\ ~ret.success
    /\ ret.type = "duplicate"
    /\ Len(logs) = 2
    /\ logs[1].name = call.name /\ logs[2].name = call.name
    /\ logs[2].type = "punch_out"
    /\ log_file.content = "json" /\ Len(log_file.items) = 2

\* C25: when the write of the log file made by punchIn or punchOut fails,
\* the log in memory is what it was before the call.
C25_MemoryAsBefore ==
    [][(PunchStep /\ ret' = Raised) => logs' = logs]_vars

\* C25 witness: the only event in memory is one whose write failed, the
\* file holding no event, and a later punchIn of the name was rejected as
\* duplicate because of it.
C25_Witness ==
    /\ call.op = "punch_in"
    /\ ~ret.success
    /\ ret.type = "duplicate"
    /\ Len(logs) = 1
    /\ logs[1].name = call.name
    /\ log_file.content # "json"

\* C26: when an accepted punchIn or punchOut has returned, the log file
\* holds exactly the log in memory; the ledger constructed next over that
\* file has the same events in the same order and gives the same answers
\* to statusToday and summaryToday.
C26_RoundTrip ==
    [][/\ (PunchStep /\ ret'.success) =>
            /\ log_file'.content = "json"
            /\ Len(log_file'.items) = Len(logs')
            /\ _load_logs(log_file') = logs'
       /\ (/\ call.op \in {"punch_in", "punch_out"}
           /\ ret.success
           /\ LedgerStep("load")) =>
            /\ logs' = logs
            /\ \A now \in Instants :
                  /\ \A name \in Names :
                        get_status_today(logs', name, now)
                            = get_status_today(logs, name, now)
                  /\ get_today_summary(logs', <<now, now>>).ret
                        = get_today_summary(logs, <<now, now>>).ret]_vars

\* C26 witness: a ledger was constructed over a file that holds an ENTRY
\* and an EXIT with its duration, and it has these two events.
C26_Witness ==
    /\ call.op = "load"
    /\ log_file.content = "json"
    /\ Len(logs) = 2
    /\ logs[1].type = "punch_in"
    /\ logs[2].type = "punch_out"
    /\ "duration_hours" \in DOMAIN logs[2]
    /\ logs[2].duration_str = fromisoformat(logs[2].timestamp)
                                  - fromisoformat(logs[1].timestamp)

\* C27: a ledger constructed over a log file that is absent, empty or holds
\* no JSON document has no event and the construction does not raise;
\* statusToday and summaryToday answer as with no event, the punchIn that
\* follows is accepted as the first event and the punchOut that follows is
\* rejected as not punched in.
C27_UnreadableStore ==
    [][/\ (LedgerStep("load") /\ log_file.content # "json") =>
            /\ logs' = <<>>
            /\ ret' # Raised
            /\ log_file' = log_file
            /\ \A now \in Instants :
                  /\ \A name \in Names :
                        get_status_today(logs', name, now) = "none"
                  /\ get_today_summary(logs', <<now, now>>).ret.summary = <<>>
       /\ (call.op = "load" /\ log_file.content # "json" /\ ret' # Raised) =>
            /\ LedgerStep("punch_in") =>
                  AppendedOne(call'.name, "punch_in") /\ Len(logs') = 1
            /\ LedgerStep("punch_out") => Rejected("not_punched_in")]_vars

\* C27 witness: a ledger was constructed over a file that a failed write
\* left with a part of a document, and it has no event.
C27_Witness ==
    /\ call.op = "load"
    /\ log_file.content = "garbage"
    /\ logs = <<>>

(***************************************************************************)
(* Properties of an entry attempt and of an exit request                   *)
(***************************************************************************)
\* the model can follow the session no further: its calls have reached
\* MaxFrames, or its timer started at the last instant of the clock
SessionAtBound ==
    \/ Len(hist) = MaxFrames
    \/ check_start_time = Max(Instants)
    \/ (check_start_time = None /\ clock = Max(Instants))

\* C29: after a matched entry request the loop does not stay in the
\* entry-checking mode for ever: the attempt concludes and the mode is idle
\* again (or the loop has ended).
C29_EntryConcludes ==
    (mode = "punch_in") ~> (mode = "idle" \/ pc = "done" \/ SessionAtBound)

\* C29, the cycles: in the entry-checking mode every cycle of the loop makes
\* a verify_liveness call.
C29_EveryCycleVerifies ==
    [][(pc = "capture" /\ pc' = "key" /\ mode = "punch_in" /\ liveness_active)
          => hist' # hist]_vars

\* C30: an exit request is not gated by the liveness check.  punchOut is
\* called only by the handling of a key, for the name and id of a match of
\* the current frame made in that same step, and that step makes no reset
\* and no verify_liveness call and leaves the liveness session, the mode
\* and the liveness flag as they were.
C30_ExitNotGated ==
    [][LedgerStep("punch_out") =>
        /\ pc = "key" /\ pc' = "capture"
        /\ CanRecognize(frame)
        /\ Recognize(frame).matched
        /\ call'.name = Recognize(frame).name
        /\ match' = MatchCall(frame.encoding, encodings, get_all_names(faces))
        /\ UNCHANGED <<blink_count, closed_frames, check_start_time, hist>>
        /\ UNCHANGED <<mode, liveness_active, last_recognition>>]_vars

\* C30 witness: a punchOut was accepted while an entry attempt is in its
\* liveness check, in a session that has made one call, still pending; the
\* session is as that call left it.
C30_Witness ==
    /\ call.op = "punch_out"
    /\ ret.success
    /\ mode = "punch_in" /\ liveness_active
    /\ Len(hist) = 1
    /\ hist[1].result.is_live = "None"
    /\ check_start_time = hist[1].now - hist[1].result.time_elapsed
    /\ pc = "capture"

(***************************************************************************)
(* Properties of the liveness session                                      *)
(***************************************************************************)
\* a step in which verify_liveness was called
VerifyStep == Len(hist') = Len(hist) + 1

\* what C31 has in every reading: the timer is unset while no call was made
\* since the reset, a call made with the timer running leaves it as it is,
\* and the elapsed value of every result is the time of its call minus the
\* timer
LatchKept ==
    /\ hist' = <<>> => check_start_time' = None
    /\ (VerifyStep /\ check_start_time # None)
          => check_start_time' = check_start_time
    /\ VerifyStep =>
          \A i \in DOMAIN hist' :
              hist'[i].result.time_elapsed = hist'[i].now - check_start_time'

\* C31 as stated: after reset() the session start is unset; the first call
\* after a reset sets it to that call's time, so the elapsed value of its
\* result is 0; no later call changes it until the next reset; the elapsed
\* value of every result is the call time minus the latched value.
C31_Original ==
    [][/\ LatchKept
       /\ (VerifyStep /\ check_start_time = None) =>
             /\ check_start_time' = hist'[1].now
             /\ hist'[1].result.time_elapsed = 0]_vars

\* C31 amended: as stated, but the first call after a reset sets the
\* session start to the time at which that call began, and the elapsed value
\* of its result is the time that passed inside the call up to the read that
\* measures it: 0 when that read shows the same time, more otherwise.
C31_Amended ==
    [][/\ LatchKept
       /\ (VerifyStep /\ check_start_time = None) =>
             /\ Len(hist') = 1
             /\ check_start_time' = clock
             /\ hist'[1].result.time_elapsed = clock' - clock
             /\ hist'[1].result.time_elapsed >= 0]_vars

\* C31 witness: the first call of a session measured one second elapsed, a
\* later call was made ten seconds or more after it, and the session start
\* is still the time at which the first call began.
C31_Witness ==
    /\ Len(hist) >= 2
    /\ hist[1].result.time_elapsed = 1
    /\ hist[2].now >= hist[1].now + 10
    /\ check_start_time = hist[1].now - 1
    /\ hist[2].result.time_elapsed = hist[2].now - check_start_time

\* the detector is as reset() leaves it
Fresh ==
    /\ blink_count = 0
    /\ closed_frames = 0
    /\ check_start_time = None

\* a step that starts an entry attempt: a key is handled and the mode
\* becomes, or the match kept for the punch in is made anew while the mode
\* is, the entry-checking one
AttemptStarts ==
    /\ pc = "key"
    /\ mode' = "punch_in"
    /\ mode # "punch_in" \/ ~liveness_active
          \/ last_recognition' # last_recognition

\* C32: every entry attempt starts from a fresh liveness session.  The step
\* that starts an attempt leaves the detector as reset() does, whatever an
\* earlier attempt left in it; verify_liveness is called only during an
\* attempt; and the first call of an attempt finds the timer unset and the
\* blink state zero, so its timer starts inside that call and its result
\* counts no blink.
C32_FreshSession ==
    [][/\ AttemptStarts => (Fresh' /\ liveness_active')
       /\ VerifyStep => (mode = "punch_in" /\ liveness_active)
       /\ (VerifyStep /\ Len(hist') = 1) =>
             /\ Fresh
             /\ check_start_time' >= clock
             /\ hist'[1].result.time_elapsed = hist'[1].now - check_start_time'
             /\ hist'[1].result.blink_count = 0]_vars

\* C32 witness: an earlier attempt ended with an accepted punchIn; a later
\* attempt has made its first call, whose elapsed time is 0 and which is
\* pending, more than the timeout after the start of the earlier session.
C32_Witness ==
    /\ mode = "punch_in" /\ liveness_active
    /\ Len(logs) >= 1
    /\ logs[1].type = "punch_in"
    /\ Len(hist) = 1
    /\ hist[1].result.is_live = "None"
    /\ hist[1].result.time_elapsed = 0
    /\ check_start_time > fromisoformat(logs[1].timestamp) + max_check_duration

\* the registry in memory holds as many identity records as vectors, and a
\* match_face over it does not take the length-mismatch branch
RegistryConsistent ==
    /\ Len(faces) = Len(encodings)
    /\ ~(Len(encodings) > 0 /\ Mismatch(encodings, get_all_names(faces)))

\* C33: in every reachable registry state, after a load from the store (also
\* one where one of the two files is missing or corrupted) and after any
\* sequence of register_face calls, there are as many identity records as
\* stored vectors, so match_face never takes its length-mismatch branch
C33_RegistryConsistent == RegistryConsistent

\* a load met records it could not read beside an array it could, a later
\* registration was saved, and the two files now differ in length for good
C33_Witness ==
    /\ Len(faces) = 1
    /\ Len(encodings) = 2
    /\ faces[1].id = 0
    /\ _load_faces(faces_file) = faces
    /\ _load_encodings(encodings_file) = encodings
    /\ Mismatch(encodings, get_all_names(faces))

\* the records of the summary the last call returned, none when the last
\* call was not get_today_summary
SummaryRecords ==
    IF call.op = "get_today_summary"
    THEN {ret.summary[i] : i \in DOMAIN ret.summary}
    ELSE {}

\* C34: for every record summaryToday reports as Completed, the reported
\* entry time is not later than the reported exit time and the reported
\* duration is the interval between the two, after any sequence of accepted
\* punches
C34_CompletedInterval ==
    \A rec \in SummaryRecords :
        rec.status = "Completed" =>
            /\ rec.punch_in <= rec.punch_out
            /\ "duration" \in DOMAIN rec
            /\ rec.duration = rec.punch_out - rec.punch_in

\* an ENTRY, an EXIT and, more than ten seconds later, a second ENTRY of one
\* name on one day: the summary reports Completed with the time of the second
\* ENTRY, which is later than the time of the EXIT
C34_Witness ==
    /\ Len(logs) = 3
    /\ logs[1].type = "punch_in" /\ logs[2].type = "punch_out"
    /\ logs[3].type = "punch_in"
    /\ logs[1].name = logs[2].name /\ logs[2].name = logs[3].name
    /\ \E rec \in SummaryRecords :
          /\ rec.status = "Completed"
          /\ rec.punch_in = logs[3].time
          /\ rec.punch_out = logs[2].time
          /\ rec.punch_in > rec.punch_out
          /\ rec.duration = fromisoformat(logs[2].timestamp)
                              - fromisoformat(logs[1].timestamp)

\* one ENTRY and one EXIT of a name: the summary's duration, taken from a
\* clock read of its own, is not the interval between the two reported times
C34_OffByDrift ==
    /\ Len(logs) = 2
    /\ logs[1].type = "punch_in" /\ logs[2].type = "punch_out"
    /\ \E rec \in SummaryRecords :
          /\ rec.status = "Completed"
          /\ rec.punch_in <= rec.punch_out
          /\ rec.duration # rec.punch_out - rec.punch_in

\* the first event of each name on each day, read on the date field, is an
\* ENTRY
FirstOfDayIsEntry ==
    \A i \in DOMAIN logs :
        logs[i].type = "punch_out" =>
            \E j \in 1..(i - 1) : /\ logs[j].name = logs[i].name
                                  /\ logs[j].date = logs[i].date
                                  /\ logs[j].type = "punch_in"

\* every EXIT carries a duration
ExitsCarryDuration ==
    \A i \in DOMAIN logs :
        logs[i].type = "punch_out" =>
            {"duration_hours", "duration_str"} \subseteq DOMAIN logs[i]

\* the summary reports no status other than Completed and Checked In
NoUnknownStatus ==
    \A rec \in SummaryRecords : rec.status \in {"Completed", "Checked In"}

\* C35: in every ledger state reachable from an empty log, the first event
\* of each name on each calendar day is an ENTRY; every EXIT carries a
\* duration; and summaryToday reports no status other than Completed or
\* Checked In
C35_EntryFirst ==
    /\ FirstOfDayIsEntry
    /\ ExitsCarryDuration
    /\ NoUnknownStatus

\* an accepted punch_out that began before midnight and looked for the ENTRY
\* of the day after midnight: the EXIT is dated the day of the ENTRY and has
\* no duration
C35_Witness ==
    /\ call.op = "punch_out"
    /\ ret.success
    /\ Len(logs) = 2
    /\ logs[1].type = "punch_in" /\ logs[2].type = "punch_out"
    /\ logs[1].name = logs[2].name
    /\ logs[1].date = logs[2].date
    /\ strftime_date(call.reads[2]) = logs[1].date
    /\ strftime_date(call.reads[4]) = logs[1].date + 1
    /\ "duration_str" \notin DOMAIN logs[2]

\* C36: the two derived views agree: for every name with events today,
\* summaryToday reports Completed exactly when statusToday of the name is
\* completed (its last event today is an EXIT) and Checked In exactly when
\* statusToday of the name is checked-in (its last event today is an ENTRY)
C36_ViewsAgree ==
    \A rec \in SummaryRecords :
        LET status == get_status_today(logs, rec.name, call.reads[2])
        IN  /\ rec.status = "Completed" <=> status = "out"
            /\ rec.status = "Checked In" <=> status = "in"

\* an ENTRY, an EXIT and a second ENTRY of one name on one day: statusToday
\* is checked-in while the summary taken at the same instant reports Completed
C36_Witness ==
    /\ Len(logs) = 3
    /\ logs[1].type = "punch_in" /\ logs[2].type = "punch_out"
    /\ logs[3].type = "punch_in"
    /\ logs[1].name = logs[3].name /\ logs[2].name = logs[3].name
    /\ \E rec \in SummaryRecords :
          /\ rec.name = logs[3].name
          /\ rec.status = "Completed"
          /\ get_status_today(logs, rec.name, call.reads[2]) = "in"

\* C37: the date and time fields of every appended event are the calendar
\* date and the clock time of the event's own timestamp, also when the clock
\* advances, possibly past midnight, between the clock reads made inside one
\* punchIn or punchOut call
C37_FieldsOfOneInstant ==
    \A i \in DOMAIN logs :
        /\ logs[i].date = strftime_date(fromisoformat(logs[i].timestamp))
        /\ logs[i].time = strftime_time(fromisoformat(logs[i].timestamp))

\* a punch_in that read the clock for `today` before midnight and for the
\* timestamp after it: the ENTRY is dated one day and stamped the next
C37_Witness ==
    /\ call.op = "punch_in"
    /\ ret.success
    /\ logs # <<>>
    /\ logs[Len(logs)] = ret.entry
    /\ ret.entry.date = strftime_date(call.reads[1])
    /\ ret.entry.timestamp = isoformat(call.reads[3])
    /\ strftime_date(fromisoformat(ret.entry.timestamp)) = ret.entry.date + 1

\* the liveness check of an entry attempt is running
CheckRunning == mode = "punch_in" /\ liveness_active

\* the step is the matched branch of the 'i' handler on the current frame
EntryRequest ==
    /\ pc = "key"
    /\ CanRecognize(frame)
    /\ Recognize(frame).matched
    /\ last_recognition' = <<Recognize(frame)>>
    /\ mode' = "punch_in"
    /\ liveness_active'

\* C38: the name and the identity id passed to punch_in are those of the
\* match made by the entry request that started the current attempt.  The
\* liveness check starts running only by an entry request, which keeps the
\* match of its own frame; while the check runs only another entry request
\* changes the kept match; and punch_in is called only while the check runs,
\* with the name and the index of the kept match, which is a successful match
\* and names a registered identity.
C38_AttemptIdentity ==
    [][/\ (~CheckRunning /\ CheckRunning') => EntryRequest
       /\ (CheckRunning /\ last_recognition' # last_recognition) => EntryRequest
       /\ LedgerStep("punch_in") =>
            /\ CheckRunning
            /\ last_recognition # <<>>
            /\ last_recognition[1].matched
            /\ last_recognition[1].index + 1 \in DOMAIN faces
            /\ faces[last_recognition[1].index + 1].name = last_recognition[1].name
            /\ call'.name = last_recognition[1].name
            /\ ret'.success =>
                 /\ ret'.entry.name = last_recognition[1].name
                 /\ ret'.entry.face_id = last_recognition[1].index]_vars

\* C38 witness: an entry was logged for the second registered identity, the
\* one the entry request matched, after a liveness check of two frames the
\* last of which shows the face of the first identity
C38_Witness ==
    /\ call.op = "punch_in"
    /\ ret.success
    /\ pc = "key"
    /\ mode = "idle" /\ ~liveness_active
    /\ Len(hist) = 2
    /\ hist[2].result.is_live = "True"
    /\ CanRecognize(frame)
    /\ Recognize(frame).matched
    /\ Recognize(frame).index = 0
    /\ last_recognition # <<>>
    /\ last_recognition[1].index = 1
    /\ last_recognition[1].name = faces[2].name
    /\ ret.entry.name = last_recognition[1].name
    /\ ret.entry.face_id = 1
    /\ logs[Len(logs)] = ret.entry

\* C39: between two resets blink_count never decreases, and it is
\* incremented, by one, only on an eyes-open frame that immediately follows
\* at least consecutive_frames consecutive closed-eye frames; frames with no
\* eyes detected in between break the run and do not count as closed frames
C39_BlinkCounting ==
    [][/\ hist' # <<>> => blink_count' >= blink_count
       /\ blink_count' > blink_count =>
            LET n == Len(hist')
            IN  /\ VerifyStep
                /\ blink_count' = blink_count + 1
                /\ hist'[n].obs = "open"
                /\ n > consecutive_frames
                /\ \A k \in 1..consecutive_frames : hist'[n - k].obs = "closed"]_vars

\* the frames of one check showed closed eyes, no eyes, closed eyes and open
\* eyes, in that order, and a blink was counted on the last one
C39_Witness ==
    /\ Len(hist) = 4
    /\ hist[1].obs = "closed"
    /\ hist[2].obs = "no_eyes"
    /\ hist[3].obs = "closed"
    /\ hist[4].obs = "open"
    /\ hist[3].result.blink_count = 0
    /\ hist[4].result.blink_count = 1
    /\ blink_count = 1
    /\ closed_frames = 0

\* the parts of C39 the detector keeps: the counter does not decrease between
\* two resets, goes up by one at a time and only on an eyes-open frame, and a
\* frame with no eyes detected leaves the two counters as they were
C39_Kept ==
    [][/\ hist' # <<>> => blink_count' >= blink_count
       /\ blink_count' > blink_count =>
            /\ VerifyStep
            /\ blink_count' = blink_count + 1
            /\ hist'[Len(hist')].obs = "open"
            /\ closed_frames >= consecutive_frames
            /\ closed_frames' = 0
       /\ (VerifyStep /\ hist'[Len(hist')].obs = "no_eyes") =>
            /\ blink_count' = blink_count
            /\ closed_frames' = closed_frames]_vars

====
